---- MODULE Spec2Model ----
(***************************************************************************)
(* Model of sqlite3-helper's DB class (src/src/database.js): the lazy,     *)
(* lock-guarded connection(), close() with its busy retry, and migrate()   *)
(* reconciling the migrations table with the migration files, one          *)
(* transaction per rollback / apply.                                       *)
(*                                                                         *)
(* Every `await` of the source is a point where other callbacks may run,   *)
(* so every action below is one synchronous stretch of code: from the      *)
(* completion of one native call up to the issue of the next.              *)
(***************************************************************************)
EXTENDS Integers, Sequences, FiniteSets, TLC

(* ------------------------------ bounds --------------------------------- *)
\* concurrent callers of the instance
NumTasks == 3
\* callers that are active where two suffice
Callers == 2
\* connection() / close() calls made in one behaviour
MaxCalls == 3
\* native calls the environment lets fail in one behaviour
MaxFaults == 1
\* migration ids are 1..MaxId
MaxId == 3
\* process launches (lifecycles over the same database file) in one behaviour
MaxLaunches == 2
\* DB objects constructed in one behaviour
MaxObjects == 3
\* rows a query delivers at most
MaxRows == 5
\* rows of data one insert or replace is given at most
MaxData == 2

\* tryToClose(10)
CloseTries == 10

Tasks == 1 .. NumTasks
Ids == 1 .. MaxId
\* file contents: two well-formed versions and one without the '-- Down' line
Bodies == {"A", "B", "bad"}
GoodBodies == {"A", "B"}
\* the `force` option as the caller may give it
Forces == {"none", "last", "true"}

(* ------------------------------ state ---------------------------------- *)
VARIABLES
  options,    \* this.options: [WAL, migrate, force, memory, readOnly, fileMustExist]
  instance,   \* the module's `instance`: the default object, or 0 for null
  objects,    \* the DB objects constructed so far: [args, byNew]
  disk,       \* the file system: [dir, file, migrations]
  it,         \* one Statement.iterate() generator and its consumer
  crud,       \* one call of insert, replace or update: [op, table, data, where, list, out]
  files,      \* the migrations directory: set of [id, name, body]
  db,         \* this.db: a handle, or 0 for undefined
  acquired,   \* awaitLock: held
  waiting,    \* awaitLock: queue of waiting resolvers (tasks)
  pc,         \* where each task's async call stands
  oph,        \* the handle each task's outstanding native call was issued on
  res,        \* outcome of each task's last call
  cl,         \* close(): databaseToClose and tries of each task's close
  mig,        \* migrate(): locals of each task's run
  store,      \* the database file: [table, ledger, schema, data]
  tx,         \* the open transaction: [active, h, snap]
  handles,    \* native handles that are open
  nextHandle, \* identity of the next handle opened
  calls,      \* calls made so far
  faults,     \* native failures so far
  launches,   \* process launches so far
  hist        \* history of the current launch (observation only)

vars == <<options, instance, objects, disk, it, crud, files, db, acquired, waiting, pc, oph, res, cl, mig,
          store, tx, handles, nextHandle, calls, faults, launches, hist>>

\* everything but the generator
instanceVars == <<options, instance, objects, disk, crud, files, db, acquired, waiting, pc, oph, res,
                  cl, mig, store, tx, handles, nextHandle, calls, faults, launches, hist>>

\* everything but the generator and the call of insert, replace or update
instanceVarsButCrud ==
  <<options, instance, objects, disk, files, db, acquired, waiting, pc, oph, res, cl, mig,
    store, tx, handles, nextHandle, calls, faults, launches, hist>>


(* --------------------------- data shapes ------------------------------- *)
\* a migration file on disk, `<id>-<name>.sql`, with its content
File(i, b) == [id |-> i, name |-> "m", body |-> b]

\* the directories the model draws from: ids are unique within a directory
FileSets ==
  {fs \in SUBSET {File(i, b) : i \in Ids, b \in Bodies} :
     \A f, g \in fs : f.id = g.id => f = g}

\* the script texts of a file: its Up and its Down section
UpOf(f) == [dir |-> "up", id |-> f.id, body |-> f.body]
DownOf(f) == [dir |-> "down", id |-> f.id, body |-> f.body]

NoHandle == 0

\* `let instance = null`; the object this model follows; an object that a
\* later DB() call constructs
NoInstance == 0
Self == 1
Other == 2

\* the arguments a DB(...) or new DB(...) call may carry
Args == {"a", "b"}
\* a constructed object: the arguments it got, and whether `new` made it
Object(a, n) == [args |-> a, byNew |-> n]

\* the file system before the first use: neither the directory of the
\* database file nor the file exists; the migrations directory exists
NewDisk == [dir |-> FALSE, file |-> FALSE, migrations |-> TRUE]

\* mkdirp.sync(path.dirname(this.options.path))
Mkdirp(d) == [d EXCEPT !.dir = TRUE]

\* (variant: the open does not create the file)
CreateFileNot(d) == d

\* new sqlite3.Database(path, cb) opens with the default mode
\* OPEN_READWRITE | OPEN_CREATE: a missing file is created
CreateFile(d) == [d EXCEPT !.file = TRUE]

\* no generator of Statement.iterate() has been started; def names the
\* definition of iterate() in effect: that of generators.js or of statement.js
NoIter ==
  [pc |-> "none", n |-> 0, sent |-> 0, complete |-> FALSE, rows |-> <<>>,
   loop |-> FALSE, got |-> <<>>, def |-> "generators", open |-> FALSE]

\* no call of insert, replace or update has been made
NoOut == [kind |-> "none", err |-> "none", sent |-> <<>>]
NoList == [given |-> FALSE, names |-> {}]
NoWhere == [type |-> "undefined", id |-> 0, term |-> "", obj |-> <<>>]
NoCrud ==
  [op |-> "none", table |-> "", data |-> <<>>, where |-> NoWhere, list |-> NoList,
   out |-> NoOut]

NoMig ==
  [migrations |-> <<>>, dbMigrations |-> <<>>, todo |-> <<>>,
   phase |-> "none", j |-> 0, lastId |-> 0, err |-> "none",
   direct |-> FALSE]

NoClose == [h |-> NoHandle, tries |-> 0]
NoRes == [op |-> "none", kind |-> "none", val |-> 0, err |-> "none"]
Resolved(o, v) == [op |-> o, kind |-> "resolved", val |-> v, err |-> "none"]
Rejected(o, e) == [op |-> o, kind |-> "rejected", val |-> 0, err |-> e]

EmptyStore == [table |-> FALSE, ledger |-> {}, schema |-> {}, data |-> 0]
NoTx == [active |-> FALSE, h |-> NoHandle, snap |-> EmptyStore]

NoFail == [step |-> "none", phase |-> "none", id |-> 0]

NoHist ==
  [nOpen |-> 0, nMigrate |-> 0, run |-> "none", store0 |-> EmptyStore,
   store1 |-> EmptyStore, log |-> <<>>, nBegin |-> 0, failed |-> NoFail,
   prevOk |-> FALSE, applied |-> {}, nClose |-> 0, queued |-> 0,
   ret |-> NoInstance, arg |-> "none", pragma |-> {}, migrated |-> {},
   disk0 |-> NewDisk, ticket |-> [t \in Tasks |-> 0],
   after |-> [t \in Tasks |-> FALSE]]

\* positions in which a task waits for a native call issued on handle oph[t]
NativePcs ==
  {"pragma", "mCreate", "mSelect", "mBegin", "mScript", "mLedger", "mCommit",
   "mRollback"}

(* ----------------------- migrate(): pure parts ------------------------- *)
MinId(S) == CHOOSE i \in {x.id : x \in S} : \A x \in S : i <= x.id

\* .sort((a, b) => Math.sign(a.id - b.id)) over the directory listing
RECURSIVE SortById(_)
SortById(S) ==
  IF S = {} THEN <<>>
  ELSE LET f == CHOOSE x \in S : x.id = MinId(S)
       IN <<f>> \o SortById(S \ {f})

\* (variant: the separator is not looked for)
MalformedNever(fs) == FALSE

\* a file without the '-- Down' separator makes migrate() throw
Malformed(fs) == \E f \in fs : f.body \notin GoodBodies

\* { id, name, up, down } for every file, ascending by id
ReadMigrations(fs) ==
  LET s == SortById(fs)
  IN [k \in DOMAIN s |->
        [id |-> s[k].id, name |-> s[k].name, up |-> UpOf(s[k]),
         down |-> DownOf(s[k])]]

\* SELECT id, name, up, down FROM migrations ORDER BY id ASC
SelectLedger(st) == SortById(st.ledger)

\* (variant: the rows are scanned in the order of the SELECT)
DescendingNot(s) == s

\* dbMigrations.slice().sort((a, b) => Math.sign(b.id - a.id))
Descending(s) == [k \in DOMAIN s |-> s[Len(s) + 1 - k]]

\* (variant: the force option rolls back whatever row the scan is at)
EligibleForceAny(m, migrations, force) ==
  \/ ~ \E k \in DOMAIN migrations : migrations[k].id = m.id
  \/ force = "last"

\* (variant: the force option is ignored)
EligibleNoForce(m, migrations, force) ==
  ~ \E k \in DOMAIN migrations : migrations[k].id = m.id

\* the condition under which a ledger row is rolled back
Eligible(m, migrations, force) ==
  \/ ~ \E k \in DOMAIN migrations : migrations[k].id = m.id
  \/ force = "last" /\ m.id = migrations[Len(migrations)].id

\* dbMigrations.filter(x => x.id !== id)
RECURSIVE FilterOut(_, _)
FilterOut(s, i) ==
  IF s = <<>> THEN <<>>
  ELSE IF Head(s).id = i THEN FilterOut(Tail(s), i)
       ELSE <<Head(s)>> \o FilterOut(Tail(s), i)

\* (variant: nothing counts as applied)
LastMigrationIdZero(dbMigrations) == 0

\* (variant: the first row is taken instead of the last)
LastMigrationIdFirst(dbMigrations) ==
  IF Len(dbMigrations) > 0 THEN dbMigrations[1].id ELSE 0

LastMigrationId(dbMigrations) ==
  IF Len(dbMigrations) > 0 THEN dbMigrations[Len(dbMigrations)].id ELSE 0

\* the next file the apply loop acts on, from index j on; 0 when none is left
NextPending(migrations, j, lastId) ==
  LET c == {k \in DOMAIN migrations : k >= j /\ migrations[k].id > lastId}
  IN IF c = {} THEN 0 ELSE CHOOSE k \in c : \A l \in c : k <= l

(* ----------------------- the engine: scripts --------------------------- *)
\* what running a script to its end does to the schema
RunScript(script, schema) ==
  IF script.dir = "up"
  THEN schema \cup {[id |-> script.id, body |-> script.body, part |-> FALSE]}
  ELSE schema \ {[id |-> script.id, body |-> script.body, part |-> FALSE]}

\* what a script leaves behind when one of its statements fails
RunPartly(script, schema) ==
  schema \cup {[id |-> script.id, body |-> script.body, part |-> TRUE]}


(* ------------------- connection(): the lock and the exits -------------- *)
\* (variant: the lock passes to the waiter that came last)
ReleaseLockLast(p) ==
  /\ acquired' = (waiting # <<>>)
  /\ waiting' = IF waiting = <<>> THEN <<>>
                ELSE SubSeq(waiting, 1, Len(waiting) - 1)
  /\ pc' = IF waiting = <<>> THEN p
           ELSE [p EXCEPT ![waiting[Len(waiting)]] = "granted"]

\* awaitLock.release(): the lock passes to the first waiter, or is freed;
\* p is pc after the releasing task's own move
ReleaseLock(p) ==
  /\ acquired' = (waiting # <<>>)
  /\ waiting' = IF waiting = <<>> THEN <<>> ELSE Tail(waiting)
  /\ pc' = IF waiting = <<>> THEN p ELSE [p EXCEPT ![Head(waiting)] = "granted"]

KeepLock(p) ==
  /\ pc' = p
  /\ UNCHANGED <<acquired, waiting>>

\* `this.awaitLock.release(); return this.db`
ReturnDb(t, d, hh) ==
  /\ ReleaseLock([pc EXCEPT ![t] = "idle"])
  /\ res' = [res EXCEPT ![t] = Resolved("connection", d)]
  /\ mig' = [mig EXCEPT ![t] = NoMig]
  /\ oph' = [oph EXCEPT ![t] = NoHandle]
  /\ hist' = hh

\* the call a task's migrate() run belongs to: connection(), or migrate()
\* called by the application itself
OpOf(m) == IF m.direct THEN "migrate" ELSE "connection"

\* an exception that leaves connection() after the open, or a migrate()
\* called directly: no handler is there
ThrowOut(t, e, hh) ==
  /\ KeepLock([pc EXCEPT ![t] = "idle"])
  /\ res' = [res EXCEPT ![t] = Rejected(OpOf(mig[t]), e)]
  /\ mig' = [mig EXCEPT ![t] = NoMig]
  /\ oph' = [oph EXCEPT ![t] = NoHandle]
  /\ hist' = hh

\* (variant: the catch block rethrows without releasing the lock)
CatchOpenNoRelease(t, e, hh) ==
  /\ db' = NoHandle
  /\ KeepLock([pc EXCEPT ![t] = "idle"])
  /\ res' = [res EXCEPT ![t] = Rejected("connection", e)]
  /\ mig' = [mig EXCEPT ![t] = NoMig]
  /\ oph' = [oph EXCEPT ![t] = NoHandle]
  /\ hist' = hh

\* the catch block around the open
CatchOpen(t, e, hh) ==
  /\ db' = NoHandle
  /\ ReleaseLock([pc EXCEPT ![t] = "idle"])
  /\ res' = [res EXCEPT ![t] = Rejected("connection", e)]
  /\ mig' = [mig EXCEPT ![t] = NoMig]
  /\ oph' = [oph EXCEPT ![t] = NoHandle]
  /\ hist' = hh

\* a native call is issued on this.db (d) and the task awaits its callback
Issue(t, op, d, m, hh) ==
  /\ KeepLock([pc EXCEPT ![t] = op])
  /\ oph' = [oph EXCEPT ![t] = d]
  /\ mig' = [mig EXCEPT ![t] = m]
  /\ hist' = hh
  /\ UNCHANGED res

\* (variant: the cached handle is never recognised)
CachedNever(d) == FALSE

\* `if (this.db)` of connection()
Cached(d) == d # NoHandle

\* the native call of task t can succeed: it was issued on a handle (not on
\* undefined) and that handle is open
Valid(t) == oph[t] # NoHandle /\ oph[t] \in handles

\* the environment may fail a call only while its budget lasts
MayFail(t, ok) == ok \/ (faults < MaxFaults /\ Valid(t))
Failure(t) == IF oph[t] = NoHandle THEN "TypeError" ELSE "SqlError"

(* ------------------------- migrate(): the loops ------------------------ *)
\* migrate() returns: to connection(), which releases the lock and returns
\* the handle, or to the application that called it
MigrateReturn(t, m, hh) ==
  IF m.direct
  THEN /\ KeepLock([pc EXCEPT ![t] = "idle"])
       /\ res' = [res EXCEPT ![t] = Resolved("migrate", 0)]
       /\ mig' = [mig EXCEPT ![t] = NoMig]
       /\ oph' = [oph EXCEPT ![t] = NoHandle]
       /\ hist' = hh
  ELSE ReturnDb(t, db, hh)

\* the apply loop from index m.j on: the next pending file, or the return
ApplyLoop(t, m, hh) ==
  LET k == NextPending(m.migrations, m.j, m.lastId)
  IN IF k = 0
     THEN MigrateReturn(t, m, [hh EXCEPT !.run = "ok",
                                         !.migrated = @ \cup {oph[t]}])
     ELSE Issue(t, "mBegin", db, [m EXCEPT !.j = k],
                [hh EXCEPT !.nBegin = @ + 1])

\* the rollback loop at the head of m.todo; its break enters the apply loop
RollbackLoop(t, m, hh) ==
  IF m.todo # <<>> /\ Eligible(Head(m.todo), m.migrations, options.force)
  THEN Issue(t, "mBegin", db, [m EXCEPT !.phase = "rollback"],
             [hh EXCEPT !.nBegin = @ + 1])
  ELSE ApplyLoop(t, [m EXCEPT !.phase = "apply", !.todo = <<>>, !.j = 1,
                              !.lastId = LastMigrationId(m.dbMigrations)],
                 [hh EXCEPT !.store1 = store])

\* the history of a run that starts
RunStarted(hh) ==
  [hh EXCEPT !.nMigrate = @ + 1, !.run = "running", !.store0 = store,
             !.store1 = store, !.log = <<>>, !.nBegin = 0, !.failed = NoFail]

\* migrate() up to its first await
MigrateStart(t, d, hh) ==
  LET h1 == RunStarted(hh)
  IN IF ~disk.migrations
     THEN ThrowOut(t, "ENOENT", [h1 EXCEPT !.run = "failed"])
     ELSE IF files = {}
     THEN ReturnDb(t, d, [h1 EXCEPT !.run = "ok", !.migrated = @ \cup {d}])
     ELSE IF Malformed(files)
          THEN ThrowOut(t, "MalformedMigration", [h1 EXCEPT !.run = "failed"])
          ELSE Issue(t, "mCreate", d,
                     [NoMig EXCEPT !.migrations = ReadMigrations(files)], h1)

\* connection() with the test of `this.options.migrate` left out
AfterPragmaAlways(t, d, hh) == MigrateStart(t, d, hh)

\* connection() after the pragma
AfterPragma(t, d, hh) ==
  IF options.migrate THEN MigrateStart(t, d, hh) ELSE ReturnDb(t, d, hh)

\* (variant: the handle is returned as soon as it is open)
AfterOpenReturn(t, d, hh) == ReturnDb(t, d, hh)

\* connection() after the open
AfterOpen(t, d, hh) ==
  IF options.WAL THEN Issue(t, "pragma", d, NoMig, hh)
  ELSE AfterPragma(t, d, hh)


(* ------------------------------ connection() --------------------------- *)
\* the handles a close() has closed: allocated once, open no more
ClosedHandles == (1 .. (nextHandle - 1)) \ handles

\* connection() is called: `await this.awaitLock.acquireAsync()`
Call(t) ==
  /\ pc[t] = "idle"
  /\ calls < MaxCalls
  /\ calls' = calls + 1
  /\ IF acquired
     THEN /\ waiting' = Append(waiting, t)
          /\ pc' = [pc EXCEPT ![t] = "waiting"]
          /\ hist' = [hist EXCEPT !.queued = @ + 1,
                                  !.ticket[t] = hist.queued + 1,
                                  !.after[t] = ClosedHandles # {}]
          /\ UNCHANGED acquired
     ELSE /\ acquired' = TRUE
          /\ pc' = [pc EXCEPT ![t] = "granted"]
          /\ hist' = [hist EXCEPT !.after[t] = ClosedHandles # {}]
          /\ UNCHANGED waiting
  /\ res' = [res EXCEPT ![t] = NoRes]
  /\ UNCHANGED <<options, instance, objects, disk, it, crud, files, db, oph, cl, mig, store, tx, handles,
                 nextHandle, faults, launches>>

\* the lock is held: return the cached handle, or start the native open
Enter(t) ==
  /\ pc[t] = "granted"
  /\ IF Cached(db)
     THEN ReturnDb(t, db, hist) /\ UNCHANGED disk
     ELSE /\ disk' = Mkdirp(disk)
          /\ pc' = [pc EXCEPT ![t] = "opening"]
          /\ UNCHANGED <<acquired, waiting, res, mig, oph, hist>>
  /\ UNCHANGED <<options, instance, objects, it, crud, files, db, cl, store, tx, handles, nextHandle,
                 calls, faults, launches>>

\* the callback of `new sqlite3.Database(path, cb)`
OpenDone(t, ok) ==
  /\ pc[t] = "opening"
  /\ ok \/ faults < MaxFaults
  /\ IF ok
     THEN /\ db' = nextHandle
          /\ handles' = handles \cup {nextHandle}
          /\ nextHandle' = nextHandle + 1
          /\ disk' = CreateFile(disk)
          /\ AfterOpen(t, nextHandle, [hist EXCEPT !.nOpen = @ + 1])
          /\ UNCHANGED faults
     ELSE /\ CatchOpen(t, "OpenError", hist)
          /\ faults' = faults + 1
          /\ UNCHANGED <<handles, nextHandle, disk>>
  /\ UNCHANGED <<options, instance, objects, it, crud, files, cl, store, tx, calls,
                 launches>>

\* the callback of exec('PRAGMA journal_mode = WAL')
PragmaDone(t, ok) ==
  /\ pc[t] = "pragma"
  /\ MayFail(t, ok)
  /\ IF ok /\ Valid(t)
     THEN /\ AfterPragma(t, db, [hist EXCEPT !.pragma = @ \cup {oph[t]}])
          /\ UNCHANGED faults
     ELSE /\ ThrowOut(t, Failure(t), hist)
          /\ faults' = IF Valid(t) THEN faults + 1 ELSE faults
  /\ UNCHANGED <<options, instance, objects, disk, it, crud, files, db, cl, store, tx, handles, nextHandle,
                 calls, launches>>

(* -------------------------------- migrate() ---------------------------- *)
\* the action the loop is at: its ledger row (rollback) or its file (apply)
Current(m) == IF m.phase = "rollback" THEN Head(m.todo) ELSE m.migrations[m.j]
\* (variant: a rollback runs the down section of the file of the same id)
CurrentScriptOnDisk(m) ==
  IF m.phase = "rollback"
  THEN IF \E k \in DOMAIN m.migrations : m.migrations[k].id = Current(m).id
       THEN LET k == CHOOSE l \in DOMAIN m.migrations :
                       m.migrations[l].id = Current(m).id
            IN m.migrations[k].down
       ELSE Current(m).down
  ELSE Current(m).up

CurrentScript(m) ==
  IF m.phase = "rollback" THEN Current(m).down ELSE Current(m).up

FailedAt(hh, step, m) ==
  [hh EXCEPT !.failed = [step |-> step, phase |-> m.phase, id |-> Current(m).id]]

\* (variant: the catch block rethrows without ROLLBACK)
CatchStepNoRollback(t, e, hh) ==
  ThrowOut(t, e, [hh EXCEPT !.run = "failed"])

\* the catch blocks of the two loops: ROLLBACK, then rethrow
CatchStep(t, e, hh) ==
  Issue(t, "mRollback", db, [mig[t] EXCEPT !.err = e], hh)

\* callback of exec(CREATE TABLE IF NOT EXISTS ...)
CreateDone(t, ok) ==
  /\ pc[t] = "mCreate"
  /\ MayFail(t, ok)
  /\ IF ok /\ Valid(t)
     THEN /\ store' = [store EXCEPT !.table = TRUE]
          /\ Issue(t, "mSelect", db, mig[t], hist)
          /\ UNCHANGED faults
     ELSE /\ ThrowOut(t, Failure(t), [hist EXCEPT !.run = "failed"])
          /\ faults' = IF Valid(t) THEN faults + 1 ELSE faults
          /\ UNCHANGED store
  /\ UNCHANGED <<options, instance, objects, disk, it, crud, files, db, cl, tx, handles, nextHandle, calls,
                 launches>>

\* callback of the SELECT over the ledger: the rollback loop starts
SelectDone(t, ok) ==
  /\ pc[t] = "mSelect"
  /\ MayFail(t, ok)
  /\ IF ok /\ Valid(t) /\ store.table
     THEN /\ LET rows == SelectLedger(store)
             IN RollbackLoop(t, [mig[t] EXCEPT !.dbMigrations = rows,
                                               !.todo = Descending(rows)],
                             hist)
          /\ UNCHANGED faults
     ELSE /\ ThrowOut(t, Failure(t), [hist EXCEPT !.run = "failed"])
          /\ faults' = IF Valid(t) /\ ~ok THEN faults + 1 ELSE faults
  /\ UNCHANGED <<options, instance, objects, disk, it, crud, files, db, cl, store, tx, handles, nextHandle,
                 calls, launches>>

\* callback of exec('BEGIN'), which stands outside the try
BeginDone(t, ok) ==
  /\ pc[t] = "mBegin"
  /\ MayFail(t, ok)
  /\ IF ok /\ Valid(t) /\ ~tx.active
     THEN /\ tx' = [active |-> TRUE, h |-> oph[t], snap |-> store]
          /\ Issue(t, "mScript", db, mig[t], hist)
          /\ UNCHANGED faults
     ELSE /\ ThrowOut(t, Failure(t),
                      [FailedAt(hist, "begin", mig[t]) EXCEPT !.run = "failed"])
          /\ faults' = IF Valid(t) /\ ~ok THEN faults + 1 ELSE faults
          /\ UNCHANGED tx
  /\ UNCHANGED <<options, instance, objects, disk, it, crud, files, db, cl, store, handles, nextHandle, calls,
                 launches>>

\* callback of exec(migration.down) / exec(migration.up)
ScriptDone(t, ok) ==
  /\ pc[t] = "mScript"
  /\ MayFail(t, ok)
  /\ IF ok /\ Valid(t)
     THEN /\ store' = [store EXCEPT
                         !.schema = RunScript(CurrentScript(mig[t]), @)]
          /\ Issue(t, "mLedger", db, mig[t], hist)
          /\ UNCHANGED faults
     ELSE /\ store' = IF Valid(t)
                      THEN [store EXCEPT
                              !.schema = RunPartly(CurrentScript(mig[t]), @)]
                      ELSE store
          /\ CatchStep(t, Failure(t), FailedAt(hist, "script", mig[t]))
          /\ faults' = IF Valid(t) THEN faults + 1 ELSE faults
  /\ UNCHANGED <<options, instance, objects, disk, it, crud, files, db, cl, tx, handles, nextHandle, calls,
                 launches>>

\* (variant: the rollback leaves the ledger row in place)
WriteLedgerInsertOnly(m, ledger) == ledger \cup {Current(m)}

\* the ledger write of the current action
WriteLedger(m, ledger) ==
  IF m.phase = "rollback"
  THEN {r \in ledger : r.id # Current(m).id}
  ELSE ledger \cup {Current(m)}

\* INSERT fails on a row whose id the ledger holds already (PRIMARY KEY)
WriteFails(m, st) ==
  \/ ~st.table
  \/ m.phase = "apply" /\ \E r \in st.ledger : r.id = Current(m).id

\* callback of run(DELETE FROM ...) / run(INSERT INTO ...)
LedgerDone(t, ok) ==
  /\ pc[t] = "mLedger"
  /\ MayFail(t, ok)
  /\ IF ok /\ Valid(t) /\ ~WriteFails(mig[t], store)
     THEN /\ store' = [store EXCEPT !.ledger = WriteLedger(mig[t], @)]
          /\ Issue(t, "mCommit", db, mig[t], hist)
          /\ UNCHANGED faults
     ELSE /\ CatchStep(t, Failure(t), FailedAt(hist, "ledger", mig[t]))
          /\ faults' = IF Valid(t) /\ ~ok THEN faults + 1 ELSE faults
          /\ UNCHANGED store
  /\ UNCHANGED <<options, instance, objects, disk, it, crud, files, db, cl, tx, handles, nextHandle, calls,
                 launches>>

\* callback of exec('COMMIT'): the loop moves on
CommitDone(t, ok) ==
  /\ pc[t] = "mCommit"
  /\ MayFail(t, ok)
  /\ IF ok /\ Valid(t) /\ tx.active
     THEN /\ tx' = NoTx
          /\ LET m == mig[t]
                 hh == [hist EXCEPT
                          !.log = Append(@, [act |-> m.phase, row |-> Current(m)])]
             IN IF m.phase = "rollback"
                THEN RollbackLoop(t,
                       [m EXCEPT !.dbMigrations = FilterOut(@, Current(m).id),
                                 !.todo = Tail(@)], hh)
                ELSE ApplyLoop(t, [m EXCEPT !.j = @ + 1], hh)
          /\ UNCHANGED faults
     ELSE /\ CatchStep(t, Failure(t), FailedAt(hist, "commit", mig[t]))
          /\ faults' = IF Valid(t) /\ ~ok THEN faults + 1 ELSE faults
          /\ UNCHANGED tx
  /\ UNCHANGED <<options, instance, objects, disk, it, crud, files, db, cl, store, handles, nextHandle, calls,
                 launches>>

\* callback of exec('ROLLBACK') in a catch block: the error is rethrown
RollbackDone(t) ==
  /\ pc[t] = "mRollback"
  /\ IF Valid(t) /\ tx.active
     THEN /\ store' = tx.snap
          /\ tx' = NoTx
          /\ ThrowOut(t, mig[t].err, [hist EXCEPT !.run = "failed"])
     ELSE /\ ThrowOut(t, Failure(t), [hist EXCEPT !.run = "failed"])
          /\ UNCHANGED <<store, tx>>
  /\ UNCHANGED <<options, instance, objects, disk, it, crud, files, db, cl, handles, nextHandle, calls, faults,
                 launches>>


\* migrate() is called by the application: it takes no lock and works on
\* whatever this.db is
MigrateCall(t) ==
  /\ pc[t] = "idle"
  /\ calls < MaxCalls
  /\ calls' = calls + 1
  /\ IF ~disk.migrations
     THEN /\ res' = [res EXCEPT ![t] = Rejected("migrate", "ENOENT")]
          /\ hist' = [RunStarted(hist) EXCEPT !.run = "failed"]
          /\ UNCHANGED <<pc, oph, mig>>
     ELSE IF files = {}
     THEN /\ res' = [res EXCEPT ![t] = Resolved("migrate", 0)]
          /\ hist' = [RunStarted(hist) EXCEPT !.run = "ok"]
          /\ UNCHANGED <<pc, oph, mig>>
     ELSE IF Malformed(files)
          THEN /\ res' = [res EXCEPT ![t] =
                            Rejected("migrate", "MalformedMigration")]
               /\ hist' = [RunStarted(hist) EXCEPT !.run = "failed"]
               /\ UNCHANGED <<pc, oph, mig>>
          ELSE /\ pc' = [pc EXCEPT ![t] = "mCreate"]
               /\ oph' = [oph EXCEPT ![t] = db]
               /\ mig' = [mig EXCEPT ![t] =
                            [NoMig EXCEPT !.migrations = ReadMigrations(files),
                                          !.direct = TRUE]]
               /\ res' = [res EXCEPT ![t] = NoRes]
               /\ hist' = RunStarted(hist)
  /\ UNCHANGED <<options, instance, objects, disk, it, crud, files, db, acquired, waiting, cl, store, tx,
                 handles, nextHandle, faults, launches>>

(* ---------------------------------- run() ------------------------------ *)
\* run() on an instance whose handle is cached and whose lock is free: its
\* connection() returns the cached handle and the statement is issued on it
RunCall(t) ==
  /\ pc[t] = "idle"
  /\ calls < MaxCalls
  /\ Cached(db)
  /\ ~acquired
  /\ calls' = calls + 1
  /\ pc' = [pc EXCEPT ![t] = "run"]
  /\ oph' = [oph EXCEPT ![t] = db]
  /\ res' = [res EXCEPT ![t] = NoRes]
  /\ UNCHANGED <<options, instance, objects, disk, it, crud, files, db, acquired,
                 waiting, cl, mig, store, tx, handles, nextHandle, faults,
                 launches, hist>>

\* the callback of db.run(query, ...): the statement has changed the data,
\* or the engine has answered with an error
RunDone(t, ok) ==
  /\ pc[t] = "run"
  /\ MayFail(t, ok)
  /\ IF ok /\ Valid(t)
     THEN /\ store' = [store EXCEPT !.data = @ + 1]
          /\ res' = [res EXCEPT ![t] = Resolved("run", 0)]
          /\ UNCHANGED faults
     ELSE /\ res' = [res EXCEPT ![t] = Rejected("run", Failure(t))]
          /\ faults' = IF Valid(t) THEN faults + 1 ELSE faults
          /\ UNCHANGED store
  /\ pc' = [pc EXCEPT ![t] = "idle"]
  /\ oph' = [oph EXCEPT ![t] = NoHandle]
  /\ UNCHANGED <<options, instance, objects, disk, it, crud, files, db, acquired,
                 waiting, cl, mig, tx, handles, nextHandle, calls, launches,
                 hist>>

(* ----------------------------- queryIterate() -------------------------- *)
\* (variant: the loop ends as soon as the completion callback has run)
LoopCondFlagOnly(loop, rows) == loop

\* `while (loop || rows.length)`
LoopCond(loop, rows) == loop \/ rows # <<>>

\* `yield rows.shift()`: the consumer gets the first buffered row
Yield(i) ==
  [i EXCEPT !.pc = "yielded", !.got = Append(@, Head(i.rows)),
            !.rows = Tail(@)]

\* `while (loop)` of iterate() in statement.js
WhileLoop(loop, rows) == loop

\* the loop condition of the definition in effect
Continues(i) ==
  IF i.def = "statement" THEN WhileLoop(i.loop, i.rows)
  ELSE LoopCond(i.loop, i.rows)

\* the generator runs from the loop condition to its next await or yield,
\* or leaves the loop: queryIterate() then awaits statement.finalize(), the
\* generator of statement.js returns
LoopHead(i) ==
  IF Continues(i)
  THEN IF i.rows = <<>> THEN [i EXCEPT !.pc = "waiting"] ELSE Yield(i)
  ELSE [i EXCEPT !.pc = IF i.def = "statement" THEN "done" ELSE "finalizing"]

\* the generator runs on after its await: `resolveCallback = () => {}`,
\* then `if (rows.length) yield rows.shift()`
AfterAwait(i) == IF i.rows # <<>> THEN Yield(i) ELSE LoopHead(i)

\* the consumer's first next(): queryIterate() awaits this.prepare(query)
IterCall ==
  /\ it.pc = "none"
  /\ it' = [it EXCEPT !.pc = "preparing"]
  /\ UNCHANGED instanceVars

\* prepare() has resolved: iterate() issues orgStatement.each(...) and runs
\* to its first await
Prepared ==
  /\ it.pc = "preparing"
  /\ it' = LoopHead([it EXCEPT !.loop = TRUE, !.rows = <<>>, !.open = TRUE])
  /\ UNCHANGED instanceVars

\* the consumer's first next() on statement.iterate() of statement.js:
\* orgStatement.each(...) is issued and the generator runs to its first await
StatementIterate ==
  /\ it.pc = "none"
  /\ it.def = "statement"
  /\ it' = LoopHead([it EXCEPT !.loop = TRUE, !.rows = <<>>])
  /\ UNCHANGED instanceVars

\* each() has been issued and its completion callback has not run
Delivering == it.pc \notin {"none", "preparing"} /\ ~it.complete

\* resolveCallback(): resolves the promise the generator awaits, if any
ResolveCallback(p) == IF p = "waiting" THEN "woken" ELSE p

\* the row callback of each(): `rows.push(row); resolveCallback()`
RowCallback ==
  /\ Delivering
  /\ it.sent < it.n
  /\ it' = [it EXCEPT !.sent = @ + 1, !.rows = Append(@, it.sent + 1),
                      !.pc = ResolveCallback(@)]
  /\ UNCHANGED instanceVars

\* the completion callback of each(): `loop = false; resolveCallback()`
Complete ==
  /\ Delivering
  /\ it.sent = it.n
  /\ it' = [it EXCEPT !.complete = TRUE, !.loop = FALSE,
                      !.pc = ResolveCallback(@)]
  /\ UNCHANGED instanceVars

\* the continuation of the resolved await runs
Resume ==
  /\ it.pc = "woken"
  /\ it' = AfterAwait(it)
  /\ UNCHANGED instanceVars

\* the consumer's next() after a yield
Pull ==
  /\ it.pc = "yielded"
  /\ it' = LoopHead(it)
  /\ UNCHANGED instanceVars

\* statement.finalize() has resolved: the iteration is over
Finalized ==
  /\ it.pc = "finalizing"
  /\ it' = [it EXCEPT !.pc = "done", !.open = FALSE]
  /\ UNCHANGED instanceVars

\* the generator is ended from outside while it is suspended at its yield:
\* no statement of queryIterate() after the `yield *` runs
Ended(i, how) == [i EXCEPT !.pc = how]

\* the consumer leaves its loop (break or return): the iterator's return()
Return ==
  /\ it.pc = "yielded"
  /\ it.def = "generators"
  /\ it' = Ended(it, "returned")
  /\ UNCHANGED instanceVars

\* the iteration fails: an exception is thrown into the suspended generator
Throw ==
  /\ it.pc = "yielded"
  /\ it.def = "generators"
  /\ it' = Ended(it, "failed")
  /\ UNCHANGED instanceVars

(* --------------------------------- close() ----------------------------- *)
\* the engine runs a handle's calls in the order they were issued: a close
\* is attempted once the calls issued on the handle before it are over
Pending(h) == \E u \in Tasks : pc[u] \in NativePcs \cup {"run"} /\ oph[u] = h

\* close() is called: with a handle, forget it and attempt the native close
CloseCall(t) ==
  /\ pc[t] = "idle"
  /\ calls < MaxCalls
  /\ calls' = calls + 1
  /\ IF db # NoHandle
     THEN /\ cl' = [cl EXCEPT ![t] = [h |-> db, tries |-> CloseTries]]
          /\ db' = NoHandle
          /\ instance' = IF instance = Self THEN NoInstance ELSE instance
          /\ pc' = [pc EXCEPT ![t] = "closing"]
          /\ res' = [res EXCEPT ![t] = NoRes]
     ELSE /\ res' = [res EXCEPT ![t] = Resolved("close", 0)]
          /\ UNCHANGED <<cl, db, pc, instance>>
  /\ hist' = [hist EXCEPT !.nClose = @ + 1]
  /\ UNCHANGED <<options, objects, disk, it, crud, files, acquired, waiting, oph, mig, store, tx,
                 handles, nextHandle, faults, launches>>

\* (variant: the last retry is not made)
RetryOneLess(r, tries) == r = "busy" /\ tries > 1

\* `err.code === 'SQLITE_BUSY' && tries`
Retry(r, tries) == r = "busy" /\ tries > 0

\* the callback of databaseToClose.close(cb), r its outcome
CloseDone(t, r) ==
  /\ pc[t] = "closing"
  /\ ~Pending(cl[t].h)
  /\ r = "error" => faults < MaxFaults
  /\ faults' = IF r = "error" THEN faults + 1 ELSE faults
  /\ IF r = "ok"
     THEN /\ handles' = handles \ {cl[t].h}
          /\ IF tx.active /\ tx.h = cl[t].h
             THEN store' = tx.snap /\ tx' = NoTx
             ELSE UNCHANGED <<store, tx>>
          /\ pc' = [pc EXCEPT ![t] = "idle"]
          /\ res' = [res EXCEPT ![t] = Resolved("close", 0)]
          /\ cl' = [cl EXCEPT ![t] = NoClose]
     ELSE /\ UNCHANGED <<handles, store, tx>>
          /\ IF Retry(r, cl[t].tries)
             THEN /\ pc' = [pc EXCEPT ![t] = "closeWait"]
                  /\ cl' = [cl EXCEPT ![t].tries = @ - 1]
                  /\ UNCHANGED res
             ELSE /\ pc' = [pc EXCEPT ![t] = "idle"]
                  /\ res' = [res EXCEPT ![t] =
                               Rejected("close", IF r = "busy" THEN "SQLITE_BUSY"
                                                 ELSE "SqlError")]
                  /\ cl' = [cl EXCEPT ![t] = NoClose]
  /\ UNCHANGED <<options, instance, objects, disk, it, crud, files, db, acquired, waiting, oph, mig,
                 nextHandle, calls, launches, hist>>

\* setTimeout(() => tryToClose(tries - 1), 50) fires
CloseRetry(t) ==
  /\ pc[t] = "closeWait"
  /\ pc' = [pc EXCEPT ![t] = "closing"]
  /\ UNCHANGED <<options, instance, objects, disk, it, crud, files, db, acquired, waiting, oph, res, cl, mig,
                 store, tx, handles, nextHandle, calls, faults, launches, hist>>

\* (variant: every call constructs a new default)
SlotAlwaysNew(inst, fresh) == fresh

\* `instance || new DB(...arguments)`
Slot(inst, fresh) == IF inst # NoInstance THEN inst ELSE fresh

\* DB(a) is called as a function: `instance = instance || new DB(...)`; with
\* the slot empty a new object is constructed from the arguments and becomes
\* the default; the call returns the default
Lookup(a) ==
  LET fresh == Len(objects) + 1
  IN /\ Slot(instance, fresh) = fresh => Len(objects) < MaxObjects
     /\ instance' = Slot(instance, fresh)
     /\ objects' = IF Slot(instance, fresh) = fresh
                   THEN Append(objects, Object(a, FALSE))
                   ELSE objects
     /\ hist' = [hist EXCEPT !.ret = Slot(instance, fresh), !.arg = a]
     /\ UNCHANGED <<options, disk, it, crud, files, db, acquired, waiting, pc, oph,
                    res, cl, mig, store, tx, handles, nextHandle, calls,
                    faults, launches>>

\* new DB(a): the constructor leaves the slot alone
New(a) ==
  /\ Len(objects) < MaxObjects
  /\ objects' = Append(objects, Object(a, TRUE))
  /\ UNCHANGED <<options, instance, disk, it, crud, files, db, acquired, waiting,
                 pc, oph, res, cl, mig, store, tx, handles, nextHandle, calls,
                 faults, launches, hist>>

(* ------------------------------ environment ---------------------------- *)
\* the process ends and a new one starts over the same database file, with
\* the directory fs: an open transaction is lost
Relaunch(fs) ==
  /\ launches < MaxLaunches
  /\ \A t \in Tasks : pc[t] \in {"idle", "off"}
  /\ launches' = launches + 1
  /\ files' = fs
  /\ store' = IF tx.active THEN tx.snap ELSE store
  /\ tx' = NoTx
  /\ db' = NoHandle
  /\ acquired' = FALSE
  /\ waiting' = <<>>
  /\ oph' = [t \in Tasks |-> NoHandle]
  /\ res' = [t \in Tasks |-> NoRes]
  /\ cl' = [t \in Tasks |-> NoClose]
  /\ mig' = [t \in Tasks |-> NoMig]
  /\ handles' = {}
  /\ nextHandle' = 1
  /\ calls' = 0
  /\ hist' = [NoHist EXCEPT
                !.prevOk = (hist.run = "ok" /\ fs = files),
                !.applied = IF fs = files
                            THEN hist.applied \cup
                                 {hist.log[k].row.id :
                                    k \in {l \in DOMAIN hist.log :
                                             hist.log[l].act = "apply"}}
                            ELSE {}]
  /\ UNCHANGED <<options, instance, objects, disk, it, crud, pc, faults>>

(* ---------------------------- specifications --------------------------- *)
InitState ==
  /\ db = NoHandle
  /\ acquired = FALSE
  /\ waiting = <<>>
  /\ oph = [t \in Tasks |-> NoHandle]
  /\ res = [t \in Tasks |-> NoRes]
  /\ cl = [t \in Tasks |-> NoClose]
  /\ mig = [t \in Tasks |-> NoMig]
  /\ store = EmptyStore
  /\ tx = NoTx
  /\ handles = {}
  /\ nextHandle = 1
  /\ calls = 0
  /\ faults = 0
  /\ launches = 1

InitCommon == InitState /\ hist = NoHist /\ it = NoIter /\ crud = NoCrud

\* the directories of the lifecycle specification: at most the file of id 1
LifecycleFileSets == {fs \in FileSets : \A f \in fs : f.id <= 1 /\ f.body # "B"}

\* a new instance over a new database file, used by every task
Init ==
  /\ InitCommon
  /\ instance = NoInstance
  /\ objects = <<Object("a", TRUE)>>
  /\ disk = NewDisk
  /\ options \in [WAL : BOOLEAN, migrate : BOOLEAN, force : {"none"},
                 memory : {FALSE}, readOnly : {FALSE}, fileMustExist : {FALSE}]
  /\ files \in LifecycleFileSets
  /\ pc = [t \in Tasks |-> IF t <= Callers THEN "idle" ELSE "off"]

Next ==
  \/ \E t \in Tasks :
       \/ Call(t)
       \/ Enter(t)
       \/ \E ok \in BOOLEAN : OpenDone(t, ok)
       \/ \E ok \in BOOLEAN : PragmaDone(t, ok)
       \/ \E ok \in BOOLEAN : CreateDone(t, ok)
       \/ \E ok \in BOOLEAN : SelectDone(t, ok)
       \/ \E ok \in BOOLEAN : BeginDone(t, ok)
       \/ \E ok \in BOOLEAN : ScriptDone(t, ok)
       \/ \E ok \in BOOLEAN : LedgerDone(t, ok)
       \/ \E ok \in BOOLEAN : CommitDone(t, ok)
       \/ RollbackDone(t)
       \/ CloseCall(t)
       \/ \E r \in {"ok", "busy", "error"} : CloseDone(t, r)
       \/ CloseRetry(t)

Spec == Init /\ [][Next]_vars

\* the directories of the migration specification: well-formed files
GoodFileSets == {fs \in FileSets : ~Malformed(fs)}

\* one task, launch after launch over the same database file, the directory
\* drawn anew at every launch
MigrateInit ==
  /\ InitCommon
  /\ instance = NoInstance
  /\ objects = <<Object("a", TRUE)>>
  /\ disk = NewDisk
  /\ options \in [WAL : {TRUE}, migrate : {TRUE}, force : Forces,
                 memory : {FALSE}, readOnly : {FALSE}, fileMustExist : {FALSE}]
  /\ files \in GoodFileSets
  /\ pc = [t \in Tasks |-> IF t = 1 THEN "idle" ELSE "off"]

MigrateNext ==
  \/ \E t \in Tasks :
       \/ Call(t)
       \/ Enter(t)
       \/ \E ok \in BOOLEAN : OpenDone(t, ok)
       \/ \E ok \in BOOLEAN : PragmaDone(t, ok)
       \/ \E ok \in BOOLEAN : CreateDone(t, ok)
       \/ \E ok \in BOOLEAN : SelectDone(t, ok)
       \/ \E ok \in BOOLEAN : BeginDone(t, ok)
       \/ \E ok \in BOOLEAN : ScriptDone(t, ok)
       \/ \E ok \in BOOLEAN : LedgerDone(t, ok)
       \/ \E ok \in BOOLEAN : CommitDone(t, ok)
       \/ RollbackDone(t)
  \/ \E fs \in GoodFileSets : Relaunch(fs)

MigrateSpec == MigrateInit /\ [][MigrateNext]_vars

\* one task, launch after launch over the same database file; from the second
\* launch on the directory may hold files without the '-- Down' line
MalformedInit ==
  /\ InitCommon
  /\ instance = NoInstance
  /\ objects = <<Object("a", TRUE)>>
  /\ disk = NewDisk
  /\ options \in [WAL : {TRUE}, migrate : {TRUE}, force : {"none"},
                 memory : {FALSE}, readOnly : {FALSE}, fileMustExist : {FALSE}]
  /\ files \in GoodFileSets
  /\ pc = [t \in Tasks |-> IF t = 1 THEN "idle" ELSE "off"]

MalformedNext ==
  \/ \E t \in Tasks :
       \/ Call(t)
       \/ Enter(t)
       \/ \E ok \in BOOLEAN : OpenDone(t, ok)
       \/ \E ok \in BOOLEAN : PragmaDone(t, ok)
       \/ \E ok \in BOOLEAN : CreateDone(t, ok)
       \/ \E ok \in BOOLEAN : SelectDone(t, ok)
       \/ \E ok \in BOOLEAN : BeginDone(t, ok)
       \/ \E ok \in BOOLEAN : ScriptDone(t, ok)
       \/ \E ok \in BOOLEAN : LedgerDone(t, ok)
       \/ \E ok \in BOOLEAN : CommitDone(t, ok)
       \/ RollbackDone(t)
  \/ \E fs \in FileSets : Relaunch(fs)

MalformedSpec == MalformedInit /\ [][MalformedNext]_vars

\* the directories of the direct-call specification: well-formed, ids up to 2
DirectFileSets ==
  {fs \in GoodFileSets : \A f \in fs : f.id <= 2 /\ f.body = "A"}

\* an instance whose callers use connection() and also call migrate()
\* themselves
DirectInit ==
  /\ InitCommon
  /\ instance = NoInstance
  /\ objects = <<Object("a", TRUE)>>
  /\ disk = NewDisk
  /\ options \in [WAL : {FALSE}, migrate : BOOLEAN, force : {"none"},
                 memory : {FALSE}, readOnly : {FALSE}, fileMustExist : {FALSE}]
  /\ files \in DirectFileSets \cup LifecycleFileSets
  /\ pc = [t \in Tasks |-> IF t <= Callers THEN "idle" ELSE "off"]

DirectNext ==
  \E t \in Tasks :
    \/ Call(t)
    \/ Enter(t)
    \/ \E ok \in BOOLEAN : OpenDone(t, ok)
    \/ \E ok \in BOOLEAN : CreateDone(t, ok)
    \/ \E ok \in BOOLEAN : SelectDone(t, ok)
    \/ \E ok \in BOOLEAN : BeginDone(t, ok)
    \/ \E ok \in BOOLEAN : ScriptDone(t, ok)
    \/ \E ok \in BOOLEAN : LedgerDone(t, ok)
    \/ \E ok \in BOOLEAN : CommitDone(t, ok)
    \/ RollbackDone(t)
    \/ MigrateCall(t)

DirectSpec == DirectInit /\ [][DirectNext]_vars

\* the default instance, made by DB(), opened and closed by its callers while
\* DB() is looked up again
CloseInit ==
  /\ InitCommon
  /\ instance = Self
  /\ objects = <<Object("a", FALSE)>>
  /\ disk = NewDisk
  /\ options \in [WAL : {FALSE}, migrate : {FALSE}, force : {"none"},
                 memory : {FALSE}, readOnly : {FALSE}, fileMustExist : {FALSE}]
  /\ files = {}
  /\ pc = [t \in Tasks |-> IF t <= Callers THEN "idle" ELSE "off"]

CloseNext ==
  \/ \E t \in Tasks :
       \/ Call(t)
       \/ Enter(t)
       \/ \E ok \in BOOLEAN : OpenDone(t, ok)
       \/ CloseCall(t)
       \/ \E r \in {"ok", "busy", "error"} : CloseDone(t, r)
       \/ CloseRetry(t)
  \/ \E a \in Args : Lookup(a)

CloseSpec == CloseInit /\ [][CloseNext]_vars

\* one object, made by DB(a) or by new DB(a), is opened and closed by one
\* caller while the application calls DB(...) and new DB(...) again
SingletonInit ==
  /\ InitCommon
  /\ \E a \in Args, n \in BOOLEAN :
       /\ objects = <<Object(a, n)>>
       /\ instance = IF n THEN NoInstance ELSE Self
  /\ disk = NewDisk
  /\ options \in [WAL : {FALSE}, migrate : {FALSE}, force : {"none"},
                 memory : {FALSE}, readOnly : {FALSE}, fileMustExist : {FALSE}]
  /\ files = {}
  /\ pc = [t \in Tasks |-> IF t = 1 THEN "idle" ELSE "off"]

SingletonNext ==
  \/ \E t \in Tasks :
       \/ Call(t)
       \/ Enter(t)
       \/ \E ok \in BOOLEAN : OpenDone(t, ok)
       \/ CloseCall(t)
       \/ \E r \in {"ok", "error"} : CloseDone(t, r)
  \/ \E a \in Args : Lookup(a)
  \/ \E a \in Args : New(a)

SingletonSpec == SingletonInit /\ [][SingletonNext]_vars

\* the states of the file system a launch can find: the data directory and
\* the database file, and the migrations directory
ModeDisks ==
  {d \in [dir : BOOLEAN, file : BOOLEAN, migrations : BOOLEAN] : d.file => d.dir}

\* one caller uses an instance constructed with any of the mode options,
\* over any of these file systems
ModeInit ==
  /\ InitState
  /\ instance = NoInstance
  /\ objects = <<Object("a", TRUE)>>
  /\ disk \in ModeDisks
  /\ hist = [NoHist EXCEPT !.disk0 = disk]
  /\ it = NoIter
  /\ crud = NoCrud
  /\ options \in [WAL : {FALSE}, migrate : BOOLEAN, force : {"none"},
                 memory : BOOLEAN, readOnly : BOOLEAN, fileMustExist : BOOLEAN]
  /\ files \in IF disk.migrations THEN {{}, {File(1, "A")}} ELSE {{}}
  /\ pc = [t \in Tasks |-> IF t = 1 THEN "idle" ELSE "off"]

ModeNext ==
  \E t \in Tasks :
    \/ Call(t)
    \/ Enter(t)
    \/ \E ok \in BOOLEAN : OpenDone(t, ok)
    \/ \E ok \in BOOLEAN : CreateDone(t, ok)
    \/ \E ok \in BOOLEAN : SelectDone(t, ok)
    \/ \E ok \in BOOLEAN : BeginDone(t, ok)
    \/ \E ok \in BOOLEAN : ScriptDone(t, ok)
    \/ \E ok \in BOOLEAN : LedgerDone(t, ok)
    \/ \E ok \in BOOLEAN : CommitDone(t, ok)
    \/ RollbackDone(t)
    \/ RunCall(t)
    \/ \E ok \in BOOLEAN : RunDone(t, ok)
    \/ CloseCall(t)
    \/ \E r \in {"ok", "error"} : CloseDone(t, r)

ModeSpec == ModeInit /\ [][ModeNext]_vars

\* one queryIterate() over a query of up to MaxRows rows and its consumer
IterInit ==
  /\ InitState
  /\ hist = NoHist
  /\ it \in {[NoIter EXCEPT !.n = k] : k \in 0 .. MaxRows}
  /\ crud = NoCrud
  /\ instance = NoInstance
  /\ objects = <<Object("a", TRUE)>>
  /\ disk = NewDisk
  /\ options \in [WAL : {FALSE}, migrate : {FALSE}, force : {"none"},
                 memory : {FALSE}, readOnly : {FALSE}, fileMustExist : {FALSE}]
  /\ files = {}
  /\ pc = [t \in Tasks |-> IF t <= Callers THEN "idle" ELSE "off"]

IterNext ==
  \/ IterCall
  \/ Prepared
  \/ RowCallback
  \/ Complete
  \/ Resume
  \/ Pull
  \/ Finalized
  \/ Return
  \/ Throw

IterSpec == IterInit /\ [][IterNext]_vars

\* one statement.iterate() of statement.js over a query of up to MaxRows
\* rows, and its consumer
StatementIterInit ==
  /\ InitState
  /\ hist = NoHist
  /\ it \in {[NoIter EXCEPT !.n = k, !.def = "statement"] : k \in 0 .. MaxRows}
  /\ crud = NoCrud
  /\ instance = NoInstance
  /\ objects = <<Object("a", TRUE)>>
  /\ disk = NewDisk
  /\ options \in [WAL : {FALSE}, migrate : {FALSE}, force : {"none"},
                 memory : {FALSE}, readOnly : {FALSE}, fileMustExist : {FALSE}]
  /\ files = {}
  /\ pc = [t \in Tasks |-> IF t <= Callers THEN "idle" ELSE "off"]

StatementIterNext ==
  \/ StatementIterate
  \/ RowCallback
  \/ Complete
  \/ Resume
  \/ Pull

StatementIterSpec == StatementIterInit /\ [][StatementIterNext]_vars

\* every task calls connection() on one instance without pragma and
\* migration
FifoInit ==
  /\ InitCommon
  /\ instance = NoInstance
  /\ objects = <<Object("a", TRUE)>>
  /\ disk = NewDisk
  /\ options \in [WAL : {FALSE}, migrate : {FALSE}, force : {"none"},
                 memory : {FALSE}, readOnly : {FALSE}, fileMustExist : {FALSE}]
  /\ files = {}
  /\ pc = [t \in Tasks |-> "idle"]

FifoNext ==
  \E t \in Tasks :
    \/ Call(t)
    \/ Enter(t)
    \/ \E ok \in BOOLEAN : OpenDone(t, ok)

FifoSpec == FifoInit /\ [][FifoNext]_vars

\* directories in which several file names may carry prefixes that denote
\* the same integer (001-m.sql and 1-n.sql): Number(x[1]) gives them one id;
\* the sort leaves files of equal id in the order of the listing
SameIdFileSets ==
  SUBSET {[id |-> i, name |-> n, body |-> "A"] : i \in Ids, n \in {"m", "n"}}

\* one caller's first use over such a directory
SameIdInit ==
  /\ InitCommon
  /\ instance = NoInstance
  /\ objects = <<Object("a", TRUE)>>
  /\ disk = NewDisk
  /\ options \in [WAL : {FALSE}, migrate : {TRUE}, force : {"none"},
                 memory : {FALSE}, readOnly : {FALSE}, fileMustExist : {FALSE}]
  /\ files \in SameIdFileSets
  /\ pc = [t \in Tasks |-> IF t = 1 THEN "idle" ELSE "off"]

SameIdNext ==
  \E t \in Tasks :
    \/ Call(t)
    \/ Enter(t)
    \/ \E ok \in BOOLEAN : OpenDone(t, ok)
    \/ \E ok \in BOOLEAN : CreateDone(t, ok)
    \/ \E ok \in BOOLEAN : SelectDone(t, ok)
    \/ \E ok \in BOOLEAN : BeginDone(t, ok)
    \/ \E ok \in BOOLEAN : ScriptDone(t, ok)
    \/ \E ok \in BOOLEAN : LedgerDone(t, ok)
    \/ \E ok \in BOOLEAN : CommitDone(t, ok)
    \/ RollbackDone(t)

SameIdSpec == SameIdInit /\ [][SameIdNext]_vars


(* ============================ properties ============================== *)
\* positions inside the section the lock guards
InSection == {"granted", "opening"} \cup NativePcs

ConnResolved(t) == res[t].op = "connection" /\ res[t].kind = "resolved"
ConnRejected(t) == res[t].op = "connection" /\ res[t].kind = "rejected"

\* the lock is free, or has been passed to a waiter that will run
LockPassedOn == acquired => \E u \in Tasks : pc[u] = "granted"

\* C1: as long as close() has not been called, however the connection()
\* calls overlap, at most one native open succeeds and migrate() runs at most
\* once; every call that has resolved holds the one handle, which was opened
\* once and (with migration enabled) migrated once.
C1_OneOpenOneMigrate ==
  hist.nClose = 0 =>
    /\ hist.nOpen <= 1
    /\ hist.nMigrate <= 1
    /\ \A t \in Tasks :
         ConnResolved(t) =>
           /\ res[t].val # NoHandle
           /\ res[t].val = db
           /\ handles = {db}
           /\ hist.nOpen = 1
           /\ hist.nMigrate = IF options.migrate THEN 1 ELSE 0

\* C1 witness: a call had to queue behind the first one, and all callers
\* have resolved after one open and one migration.
C1_Witness ==
  /\ hist.nClose = 0
  /\ hist.queued > 0
  /\ options.migrate
  /\ files # {}
  /\ hist.nMigrate = 1
  /\ \A t \in Tasks : pc[t] # "off" => ConnResolved(t)

\* C2: when the pragma or the migration fails, the rejected connection()
\* leaves no cached handle and the lock released (as stated by the claim).
C2_FailureRevertsToClosed ==
  [][\A t \in Tasks :
       (/\ res'[t] # res[t]
        /\ res'[t].op = "connection"
        /\ res'[t].kind = "rejected"
        /\ res'[t].err # "OpenError")
       => (db' = NoHandle /\ LockPassedOn')]_vars

\* C2 witness: a connection() rejected by a pragma or migration failure.
C2_Witness ==
  \E t \in Tasks : ConnRejected(t) /\ res[t].err # "OpenError"

\* C3: once the caller inside the exclusive section has finished, the lock
\* is released: a held lock always has a holder still at work (as stated by
\* the claim).
C3_LockReleasedWhenSectionOver ==
  acquired => \E t \in Tasks : pc[t] \in InSection

\* C3 witness: a caller waits for the lock while nobody is inside.
C3_Witness ==
  /\ \E t \in Tasks : pc[t] = "waiting"
  /\ \A t \in Tasks : pc[t] \notin InSection

\* C4: a failed native open rejects the call with the open error, leaves no
\* handle cached or open, and releases the lock; a caller that finds no
\* cached handle starts a fresh open, and an open that succeeds caches an
\* open handle.
C4_OpenFailure ==
  [][\A t \in Tasks :
       /\ (pc[t] = "opening" /\ pc'[t] # "opening" /\ hist'.nOpen = hist.nOpen)
          => /\ res'[t] = Rejected("connection", "OpenError")
             /\ db' = NoHandle
             /\ handles' = handles
             /\ LockPassedOn'
             /\ pc'[t] = "idle"
       /\ (pc[t] = "granted" /\ pc'[t] # "granted" /\ db = NoHandle)
          => pc'[t] = "opening"
       /\ (pc[t] = "opening" /\ pc'[t] # "opening" /\ hist'.nOpen # hist.nOpen)
          => (db' # NoHandle /\ db' \in handles' /\ db' \notin handles)
    ]_vars

\* C4 witness: one call was rejected by the open error and a later one
\* resolved with an open handle.
C4_Witness ==
  \E t, u \in Tasks :
    /\ ConnRejected(t) /\ res[t].err = "OpenError"
    /\ ConnResolved(u) /\ res[u].val # NoHandle /\ res[u].val \in handles

\* C5: at most one native handle is open at any time (as stated by the
\* claim).
C5_AtMostOneHandle == Cardinality(handles) <= 1

\* C5 witness: a close() has ended with an error and two handles are open.
C5_Witness ==
  /\ \E t \in Tasks : res[t].op = "close" /\ res[t].kind = "rejected"
  /\ Cardinality(handles) = 2

(* ------------------- observations of a migrate() run ------------------- *)
IdsOf(S) == {x.id : x \in S}
MaxOf(S) == CHOOSE i \in S : \A k \in S : k <= i
HighestId(S) == IF S = {} THEN 0 ELSE MaxOf(S)

RECURSIVE Ascending(_)
Ascending(S) ==
  IF S = {} THEN <<>>
  ELSE LET i == CHOOSE x \in S : \A y \in S : x <= y
       IN <<i>> \o Ascending(S \ {i})

IsPrefix(a, b) == Len(a) <= Len(b) /\ \A k \in DOMAIN a : a[k] = b[k]

IsRollback(e) == e.act = "rollback"
IsApply(e) == e.act = "apply"
LogIds(log) == [k \in DOMAIN log |-> log[k].row.id]
\* ids rolled back / applied (committed) in this run, in order
RolledBack == LogIds(SelectSeq(hist.log, IsRollback))
Applied == LogIds(SelectSeq(hist.log, IsApply))
Range(q) == {q[k] : k \in DOMAIN q}

Ledger0Ids == IdsOf(hist.store0.ledger)
FileIds == IdsOf(files)
RunOver == hist.run = "ok"
InApplyPhase == \E t \in Tasks : mig[t].phase = "apply"

\* eligibility of a ledger id as the specification words it
SpecEligible(i) ==
  \/ i \notin FileIds
  \/ options.force = "last" /\ FileIds # {} /\ i = MaxOf(FileIds)

\* the ledger ids that are eligible together with every higher ledger id
EligibleSuffix ==
  {i \in Ledger0Ids : \A k \in Ledger0Ids : k >= i => SpecEligible(k)}

\* C6: with force not 'last', a migration whose Apply was committed in an
\* earlier lifecycle over the same, unchanged directory is not applied again;
\* and a lifecycle that follows a completed migrate run over the unchanged
\* directory begins no transaction at all (no Apply, no Rollback).
C6_NoReapply ==
  options.force # "last" =>
    /\ Range(Applied) \cap hist.applied = {}
    /\ hist.prevOk => hist.nBegin = 0 /\ hist.log = <<>>

\* C6 witness: the second lifecycle's migrate() has completed over a
\* database the first lifecycle migrated.
C6_Witness ==
  /\ options.force # "last"
  /\ hist.prevOk
  /\ hist.applied # {}
  /\ hist.nMigrate = 1
  /\ RunOver
  /\ \E t \in Tasks : ConnResolved(t)

\* C7 (as stated by the claim): a completed run has rolled back exactly the
\* ledger rows that are eligible together with every higher row.
C7_RollbackExactlyEligibleSuffix ==
  RunOver => Range(RolledBack) = EligibleSuffix

\* C7 (amended): when the directory holds at least one migration file, the
\* rows rolled back are taken from the highest id down, only among the rows
\* eligible together with every higher row, and once the rollback loop is
\* over they are exactly those rows; ledger {1,2,3} with files {1,2} and no
\* force rolls back only id 3 and leaves ledger {1,2}.
C7_RollbackSuffixWithFiles ==
  (files # {} /\ hist.run # "none") =>
    /\ Range(RolledBack) \subseteq EligibleSuffix
    /\ \A a, b \in DOMAIN RolledBack : a < b => RolledBack[a] > RolledBack[b]
    /\ \A i \in Range(RolledBack), k \in EligibleSuffix :
         k > i => k \in Range(RolledBack)
    /\ (RunOver \/ InApplyPhase) => Range(RolledBack) = EligibleSuffix
    /\ (RunOver /\ Ledger0Ids = {1, 2, 3} /\ FileIds = {1, 2}
          /\ options.force # "last")
         => (RolledBack = <<3>> /\ IdsOf(store.ledger) = {1, 2})

\* C7 witness: ledger {1,2,3}, files {1,2}: the run is over.
C7_Witness ==
  /\ RunOver
  /\ options.force # "last"
  /\ Ledger0Ids = {1, 2, 3}
  /\ FileIds = {1, 2}
  /\ RolledBack = <<3>>

\* the files the apply phase has to apply, from the ledger as it stood when
\* the rollback loop ended
ExpectedApplies ==
  Ascending({i \in FileIds : i > HighestId(IdsOf(hist.store1.ledger))})

\* C8: the migrations applied by a run are, in ascending order, the files
\* whose id exceeds the highest id left in the ledger after the rollback
\* phase: always a prefix of that list, and the whole list when the run
\* completes; ledger {1,3} with files {1,2,3} and no force begins no
\* transaction.
C8_ApplyAboveHighest ==
  /\ hist.run # "none" => IsPrefix(Applied, ExpectedApplies)
  /\ RunOver => Applied = ExpectedApplies
  /\ (hist.run # "none" /\ Ledger0Ids = {1, 3} /\ FileIds = {1, 2, 3}
        /\ options.force # "last")
       => hist.nBegin = 0

\* C8 witness: a completed run that rolled back and then applied more than
\* one file.
C8_Witness ==
  /\ RunOver
  /\ Len(RolledBack) > 0
  /\ Len(Applied) > 1
  /\ hist.store1.ledger # {}

\* the drift case of C8 is reached: ledger {1,3}, files {1,2,3}, run over
C8_DriftReached ==
  /\ RunOver
  /\ Ledger0Ids = {1, 3}
  /\ FileIds = {1, 2, 3}
  /\ options.force # "last"
  /\ IdsOf(store.ledger) = {1, 3}

\* Rollback(n) and later Apply(n) are among the committed actions of the run
RolledBackThenApplied(n) ==
  \E a, b \in DOMAIN hist.log :
    /\ a < b
    /\ IsRollback(hist.log[a]) /\ hist.log[a].row.id = n
    /\ IsApply(hist.log[b]) /\ hist.log[b].row.id = n

\* C9 (as stated by the claim): with force 'last' and a non-empty ledger of
\* highest id N, a completed run over a directory that holds files contains
\* Rollback(N) followed by Apply(N), whatever the ids of the files.
C9_ForceAlwaysReappliesHighest ==
  (RunOver /\ options.force = "last" /\ Ledger0Ids # {} /\ files # {})
    => RolledBackThenApplied(MaxOf(Ledger0Ids))

\* C9 (amended): with force 'last' and a non-empty ledger whose highest id N
\* is also the highest id among the files, a completed run contains
\* Rollback(N) followed by Apply(N); when N is the id of a file but not the
\* highest file id, the run rolls nothing back.
C9_ForceReappliesHighestFile ==
  (options.force = "last" /\ Ledger0Ids # {} /\ files # {}) =>
    LET n == MaxOf(Ledger0Ids)
    IN /\ (RunOver /\ n = MaxOf(FileIds)) => RolledBackThenApplied(n)
       /\ (hist.run # "none" /\ n \in FileIds /\ n # MaxOf(FileIds))
            => RolledBack = <<>>

\* C9 witness: the highest ledger row was rolled back and applied again
\* from a file whose content is the one the ledger recorded.
C9_Witness ==
  /\ RunOver
  /\ options.force = "last"
  /\ Ledger0Ids # {}
  /\ files # {}
  /\ MaxOf(Ledger0Ids) = MaxOf(FileIds)
  /\ RolledBackThenApplied(MaxOf(Ledger0Ids))
  /\ \E r \in hist.store0.ledger, f \in files :
       r.id = MaxOf(Ledger0Ids) /\ f.id = r.id /\ r.up = UpOf(f)

\* the ledger and the schema after the committed actions of a log
RECURSIVE Replay(_, _)
Replay(st, log) ==
  IF log = <<>> THEN st
  ELSE LET e == Head(log)
           obj == [id |-> e.row.id, body |-> e.row.up.body, part |-> FALSE]
       IN Replay(IF IsApply(e)
                 THEN [st EXCEPT !.ledger = @ \cup {e.row},
                                 !.schema = @ \cup {obj}]
                 ELSE [st EXCEPT !.ledger = @ \ {e.row},
                                 !.schema = @ \ {obj}],
                 Tail(log))

C11_FailedActionRolledBack ==
  [][\A t \in Tasks :
       (pc[t] = "mRollback" /\ pc'[t] # "mRollback"
          /\ hist.failed.step \in {"script", "ledger"})
       => /\ res'[t].kind = "rejected"
          /\ res'[t].err = mig[t].err
          /\ ~tx'.active
          /\ store' = tx.snap
          /\ pc'[t] = "idle"
          /\ hist'.nBegin = hist.nBegin]_vars

\* C11 witness: a script issued on the open handle failed while close() had
\* cleared this.db, and the run was rejected with another error than the
\* script's.
C11_Witness ==
  /\ hist.run = "failed"
  /\ hist.failed.step = "script"
  /\ hist.nClose > 0
  /\ \E o \in store.schema : o.part
  /\ \E t \in Tasks : ConnRejected(t) /\ res[t].err = "TypeError"

\* C12: within one run every committed Rollback precedes every committed
\* Apply, rollbacks go by strictly descending id and applies by strictly
\* ascending id, no rollback is begun once the apply loop has been entered,
\* and a BEGIN is issued only when the transaction of the action before it
\* is over: the BEGINs of a run number one more than its committed actions
\* while an action is under way.
C12_PlanOrder ==
  hist.run # "none" =>
    /\ \A a, b \in DOMAIN hist.log :
         a < b =>
           /\ IsApply(hist.log[a]) => IsApply(hist.log[b])
           /\ (IsRollback(hist.log[a]) /\ IsRollback(hist.log[b]))
                => hist.log[a].row.id > hist.log[b].row.id
           /\ (IsApply(hist.log[a]) /\ IsApply(hist.log[b]))
                => hist.log[a].row.id < hist.log[b].row.id
    /\ \A t \in Tasks :
         /\ pc[t] = "mBegin" => (~tx.active /\ hist.nBegin = Len(hist.log) + 1)
         /\ mig[t].phase = "rollback" => Applied = <<>>
    /\ tx.active => hist.nBegin = Len(hist.log) + 1
    /\ RunOver => (~tx.active /\ hist.nBegin = Len(hist.log))

\* C12 witness: a completed run of two rollbacks followed by two applies.
C12_Witness ==
  /\ RunOver
  /\ Len(RolledBack) >= 2
  /\ Len(Applied) >= 2
  /\ hist.nBegin = 4

\* the migrations the schema shows as applied: the objects complete up
\* scripts have created and no down script has removed
SchemaApplied(st) == {[id |-> o.id, body |-> o.body] : o \in st.schema}
\* the migrations the ledger records
LedgerApplied(st) == {[id |-> r.id, body |-> r.up.body] : r \in st.ledger}

\* C13: whenever no migration transaction is open, the ledger records
\* exactly the migrations whose up script is in effect in the schema (and
\* nothing of a half-run script is left), and ledger and schema are those of
\* the run's start with the committed actions replayed: a script and its
\* ledger write take effect together or not at all.
C13_LedgerMatchesSchema ==
  ~tx.active =>
    /\ LedgerApplied(store) = SchemaApplied(store)
    /\ \A o \in store.schema : ~o.part
    /\ hist.run # "none" => store = [Replay(hist.store0, hist.log)
                                       EXCEPT !.table = store.table]

\* C13 witness: a run that committed a rollback and an apply, then had a
\* ledger write or a commit fail and its transaction rolled back.
C13_Witness ==
  /\ ~tx.active
  /\ hist.run = "failed"
  /\ hist.failed.step \in {"ledger", "commit"}
  /\ Len(RolledBack) > 0
  /\ Len(Applied) > 0
  /\ store.ledger # {}

\* the down script the ledger holds for id i, as the database has it
StoredDown(i) == (CHOOSE r \in store.ledger : r.id = i).down

\* C14: the script a Rollback action runs is the down script of the ledger
\* row; where a file of the same id has another down section (force 'last'
\* included), the effect on the schema is that of the stored script and not
\* that of the file's.
C14_RollbackRunsStoredDown ==
  [][\A t \in Tasks :
       (pc[t] = "mScript" /\ pc'[t] = "mLedger" /\ mig[t].phase = "rollback")
       => LET i == Current(mig[t]).id
          IN /\ \E r \in store.ledger : r.id = i
             /\ store'.schema = RunScript(StoredDown(i), store.schema)
             /\ \A f \in files :
                  (f.id = i /\ DownOf(f) # StoredDown(i))
                    => store'.schema # RunScript(DownOf(f), store.schema)
    ]_vars

\* C14 witness: with force 'last' a row was rolled back whose file has since
\* been rewritten, and the file's new content was applied.
C14_Witness ==
  /\ RunOver
  /\ options.force = "last"
  /\ \E k \in DOMAIN hist.log, f \in files :
       /\ IsRollback(hist.log[k])
       /\ f.id = hist.log[k].row.id
       /\ DownOf(f) # hist.log[k].row.down
       /\ hist.log[k].row \in hist.store0.ledger
       /\ UpOf(f) \in {r.up : r \in store.ledger}

\* positions inside migrate() after its first statement has been issued
MigratePcs ==
  {"mCreate", "mSelect", "mBegin", "mScript", "mLedger", "mCommit", "mRollback"}

\* the directory holds a file without the down marker
HasBadFile == \E f \in files : f.body = "bad"

\* C15: when a file of the directory lacks its down marker, a migrate() that
\* was started has failed with the malformed-file error without issuing any
\* statement: no BEGIN, no transaction, and the database file (ledger table,
\* ledger rows, schema) is as it was when migrate() was called.
C15_MalformedFailsBeforeSql ==
  (HasBadFile /\ hist.run # "none") =>
    /\ hist.run = "failed"
    /\ hist.nBegin = 0
    /\ ~tx.active
    /\ store = hist.store0
    /\ \A t \in Tasks :
         /\ pc[t] \notin MigratePcs
         /\ res[t] # NoRes => res[t] = Rejected("connection", "MalformedMigration")

\* C15 witness: migrate() failed over a ledger that is not empty, with a
\* well-formed pending file whose id is below that of the malformed file.
C15_Witness ==
  /\ HasBadFile
  /\ \E t \in Tasks : ConnRejected(t)
  /\ hist.run = "failed"
  /\ store.ledger # {}
  /\ \E f, g \in files :
       /\ f.body \in GoodBodies
       /\ g.body \notin GoodBodies
       /\ f.id < g.id
       /\ f.id > HighestId(IdsOf(store.ledger))

\* C16 (as stated by the claim): no BEGIN of a migration is outstanding on a
\* handle on which a migration transaction is open.
C16_NoNestedTransactions ==
  \A t \in Tasks : pc[t] = "mBegin" => ~(tx.active /\ tx.h = oph[t])

\* C16 witness: with no fault injected, a migrate() called by the
\* application was rejected at its BEGIN while the transaction of another
\* run was open on the same handle.
C16_Witness ==
  /\ faults = 0
  /\ tx.active
  /\ tx.h = db
  /\ \E t, u \in Tasks :
       /\ res[t] = Rejected("migrate", "SqlError")
       /\ hist.failed.step = "begin"
       /\ pc[u] \in {"mScript", "mLedger", "mCommit"}
       /\ oph[u] = tx.h

(* ----------------------------- close() -------------------------------- *)
CloseResolved(t) == res[t] = Resolved("close", 0)
CloseRejected(t) == res[t].op = "close" /\ res[t].kind = "rejected"
NoCloseUnderWay == \A u \in Tasks : pc[u] \notin {"closing", "closeWait"}

\* C17 (as stated by the claim): once the handle of the one successful open
\* has been given up by a close() and no close() is under way any more, the
\* native handle has been closed.
C17_ClosedExactlyOnce ==
  (hist.nOpen = 1 /\ db = NoHandle /\ NoCloseUnderWay) => handles = {}

\* C17 witness: after one open, a close() was rejected, a further close()
\* resolved as a no-op, and the handle is still open with no close under way.
C17_Witness ==
  /\ hist.nOpen = 1
  /\ db = NoHandle
  /\ NoCloseUnderWay
  /\ handles # {}
  /\ \E t, u \in Tasks : CloseRejected(t) /\ CloseResolved(u)

\* the number of the native close attempt a closing task is waiting for
Attempt(t) == CloseTries - cl[t].tries + 1

\* C18: a busy answer to one of the first 10 attempts leads to another
\* attempt and never to a rejection, so a success at the 10th attempt after
\* 9 busy answers resolves the call; a busy answer to the 11th attempt
\* rejects the call with the busy error.
C18_BusyRetried ==
  [][\A t \in Tasks :
       (pc[t] = "closing" /\ pc'[t] # "closing") =>
         /\ Attempt(t) <= 10 =>
              \/ pc'[t] = "closeWait" /\ cl'[t].tries = cl[t].tries - 1
              \/ pc'[t] = "idle" /\ CloseResolved(t)' /\ handles' # handles
              \/ pc'[t] = "idle" /\ res'[t] = Rejected("close", "SqlError")
         /\ (Attempt(t) = 10 /\ handles' # handles) => CloseResolved(t)'
         /\ (Attempt(t) = 11 /\ handles' = handles)
              => /\ pc'[t] = "idle"
                 /\ res'[t].kind = "rejected"
                 /\ res'[t].err \in {"SQLITE_BUSY", "SqlError"}
    ]_vars

\* C18 witness: a close() was rejected with the busy error.
C18_Witness ==
  \E t \in Tasks : res[t] = Rejected("close", "SQLITE_BUSY")

\* C19 (as stated by the claim): no close() makes an 11th attempt.
C19_AtMostTenAttempts ==
  \A t \in Tasks : pc[t] \in {"closing", "closeWait"} => Attempt(t) <= 10

\* C19 witness: an 11th attempt is outstanding after 10 busy answers.
C19_Witness ==
  \E t \in Tasks : pc[t] = "closing" /\ Attempt(t) = 11 /\ cl[t].h \in handles

\* C20 (as stated by the claim): when the first close() of the default
\* instance ends with an error, the instance still holds its handle and is
\* still the default.
C20_ClosedOnlyOnSuccess ==
  [][\A t \in Tasks :
       (pc[t] = "closing" /\ pc'[t] = "idle" /\ res'[t].kind = "rejected"
          /\ hist.nClose = 1)
       => (db' = cl[t].h /\ instance' = Self)]_vars

\* C20 witness: the close() of the default instance was rejected, its handle
\* is open and forgotten, and a DB() lookup has constructed a new default.
C20_Witness ==
  /\ hist.nClose = 1
  /\ \E t \in Tasks : CloseRejected(t)
  /\ db = NoHandle
  /\ handles # {}
  /\ instance = Other

(* --------------------------- the default instance ---------------------- *)
\* a DB(...) call has returned in this step
LookedUp == hist'.ret # hist.ret \/ hist'.arg # hist.arg

\* C21: a DB(a) call returns the object in the slot; with the slot empty it
\* constructs that object from its arguments, with the slot filled it
\* returns the same object and constructs nothing, whatever its arguments;
\* the slot changes only by such a construction or by a close() of the
\* default; an object made with new is never in the slot, and making one
\* leaves the slot as it is.
C21_OneGlobalInstance ==
  [][/\ LookedUp =>
          /\ hist'.ret = instance'
          /\ instance' # NoInstance
          /\ instance # NoInstance => (instance' = instance /\ objects' = objects)
          /\ instance = NoInstance =>
               /\ instance' = Len(objects) + 1
               /\ objects' = Append(objects, Object(hist'.arg, FALSE))
     /\ instance' # instance =>
          \/ instance = NoInstance /\ LookedUp
          \/ instance = Self /\ instance' = NoInstance
               /\ hist'.nClose = hist.nClose + 1
     /\ (objects' # objects /\ ~LookedUp) =>
          /\ instance' = instance
          /\ Len(objects') = Len(objects) + 1
          /\ objects'[Len(objects')].byNew
     /\ instance' # NoInstance =>
          (instance' \in DOMAIN objects' /\ ~objects'[instance'].byNew)
    ]_vars

\* C21 witness: the default made by DB("a") was returned again to a call
\* with other arguments, next to an object made with new; after its close()
\* a DB("b") call constructed a new default.
C21_Witness ==
  /\ Len(objects) = 3
  /\ objects[1] = Object("a", FALSE)
  /\ objects[2].byNew
  /\ objects[3] = Object("b", FALSE)
  /\ instance = 3
  /\ hist.ret = 3
  /\ hist.nClose > 0

(* ------------------------------ lazy loading --------------------------- *)
\* connection() of task t returns a handle to its caller in this step
Receives(t) ==
  /\ pc[t] # "idle"
  /\ pc'[t] = "idle"
  /\ res'[t].op = "connection"
  /\ res'[t].kind = "resolved"
  /\ res'[t].val # NoHandle

\* C22: nothing is opened outside a connection() call; the pragma runs on
\* an open handle, the migration starts and ends on a handle whose pragma
\* (if enabled) is done, and a connection() call returns a handle only when
\* the pragma (if enabled) and the migration (if enabled) are done on it.
C22_LazyLoadInOrder ==
  [][/\ handles' \ handles # {} =>
          /\ \E t \in Tasks : pc[t] = "opening" /\ pc'[t] # "opening"
          /\ hist'.nOpen = hist.nOpen + 1
          /\ hist'.pragma \cap (handles' \ handles) # {} => options.WAL
     /\ \A h \in hist'.pragma \ hist.pragma : options.WAL /\ h \in handles
     /\ \A t \in Tasks :
          (pc'[t] = "mCreate" /\ pc[t] # "mCreate") =>
             /\ options.migrate
             /\ oph'[t] # NoHandle =>
                  /\ oph'[t] \in handles'
                  /\ options.WAL => oph'[t] \in hist'.pragma
     /\ \A h \in (hist'.migrated \ hist.migrated) \ {NoHandle} :
          /\ options.migrate
          /\ h \in handles'
          /\ options.WAL => h \in hist'.pragma
     /\ \A t \in Tasks :
          Receives(t) =>
             /\ res'[t].val \in handles'
             /\ options.WAL => res'[t].val \in hist'.pragma
             /\ options.migrate => res'[t].val \in hist'.migrated
    ]_vars

\* C22 witness: with the pragma and the migration enabled, the handle was
\* opened, the pragma ran, a migration was applied, and connection()
\* returned the handle.
C22_Witness ==
  /\ options.WAL
  /\ options.migrate
  /\ store.ledger # {}
  /\ \E t \in Tasks :
       /\ ConnResolved(t)
       /\ res[t].val \in hist.pragma \cap hist.migrated

(* ------------------- modes of the open, the file system ---------------- *)
\* C23: with the migrations directory missing, empty or without a matching
\* file, migrate() is a no-op that succeeds: no run fails, no migration
\* statement is issued, schema and ledger stay as they were, and
\* connection() is rejected by nothing but a failing open.
C23_NoFilesNoOp ==
  (~disk.migrations \/ files = {}) =>
     /\ hist.run \in {"none", "ok"}
     /\ hist.nBegin = 0
     /\ \A t \in Tasks : pc[t] \notin MigratePcs
     /\ store.table = hist.store0.table
     /\ store.ledger = hist.store0.ledger
     /\ store.schema = hist.store0.schema
     /\ \A t \in Tasks : ConnRejected(t) => res[t].err = "OpenError"

\* C23 witness: the migrations directory is missing, the open succeeded and
\* connection() was rejected with the error of the directory listing.
C23_Witness ==
  /\ ~disk.migrations
  /\ options.migrate
  /\ hist.nOpen = 1
  /\ hist.run = "failed"
  /\ \E t \in Tasks : res[t] = Rejected("connection", "ENOENT")

\* the native open of task t ends in this step
OpenEnds(t) == pc[t] = "opening" /\ pc'[t] # "opening"

\* C24: with the database file missing and fileMustExist or readOnly set,
\* the open ends with connection() rejected by an open error, no file
\* created and no handle cached.
C24_MissingFileRejected ==
  [][\A t \in Tasks :
       (OpenEnds(t) /\ ~disk.file
          /\ (options.fileMustExist \/ options.readOnly)) =>
          /\ res'[t] = Rejected("connection", "OpenError")
          /\ ~disk'.file
          /\ db' = NoHandle
    ]_vars

\* C24 witness: fileMustExist is set and the file was missing, and
\* connection() has resolved with a handle over a file it created.
C24_Witness ==
  /\ options.fileMustExist
  /\ ~options.readOnly
  /\ ~hist.disk0.file
  /\ disk.file
  /\ db # NoHandle
  /\ \E t \in Tasks : ConnResolved(t) /\ res[t].val = db

\* C25: with memory set, no step changes the file system.
C25_MemoryLeavesDiskAlone == [][options.memory => disk' = disk]_vars

\* C25 witness: memory is set, nothing was on disk, and after connection()
\* with its migration and a close() directory and file are there.
C25_Witness ==
  /\ options.memory
  /\ options.migrate
  /\ hist.run = "ok"
  /\ ~hist.disk0.dir
  /\ disk.dir
  /\ disk.file
  /\ \E t \in Tasks : CloseResolved(t)

\* the statement of task t's run() ends in this step
RunEnds(t) == pc[t] = "run" /\ pc'[t] # "run"

\* C26: with readOnly set over an existing database file, every write ends
\* rejected with the read-only error and leaves the contents as they were.
C26_ReadOnlyRejectsWrites ==
  [][\A t \in Tasks :
       (RunEnds(t) /\ options.readOnly /\ hist.disk0.file) =>
          /\ res'[t] = Rejected("run", "SQLITE_READONLY")
          /\ store' = store
    ]_vars

\* C26 witness: readOnly is set over an existing database file and a
\* write has resolved and changed the contents.
C26_Witness ==
  /\ options.readOnly
  /\ ~options.migrate
  /\ hist.disk0.file
  /\ store.data > 0
  /\ \E t \in Tasks : res[t] = Resolved("run", 0)

\* the options are the defaults of a file-backed target
DefaultFlags ==
  ~options.memory /\ ~options.readOnly /\ ~options.fileMustExist

\* C30: with the default flags, once connection() has resolved with a
\* handle the parent directory and the database file exist.
C30_FileExistsOnceResolved ==
  DefaultFlags =>
    \A t \in Tasks :
      (ConnResolved(t) /\ res[t].val # NoHandle) => (disk.dir /\ disk.file)

\* C30 witness: default flags and migration disabled, neither directory nor
\* file at the start, and connection() has resolved over the new file.
C30_Witness ==
  /\ DefaultFlags
  /\ ~options.migrate
  /\ ~hist.disk0.dir
  /\ ~hist.disk0.file
  /\ disk.dir
  /\ disk.file
  /\ \E t \in Tasks : ConnResolved(t) /\ res[t].val # NoHandle

(* --------------------------- force: true ------------------------------- *)
\* C27: with the migrate option force set to true, a launch whose ledger
\* holds the latest migration file completes its run with that migration
\* rolled back and applied again.
C27_ForceTrueReappliesLatest ==
  (RunOver /\ options.force = "true" /\ Ledger0Ids # {} /\ files # {}
     /\ MaxOf(Ledger0Ids) = MaxOf(FileIds))
    => RolledBackThenApplied(MaxOf(FileIds))

\* C27 witness: force is true, the launch found the latest file in the
\* ledger, and its run completed without rolling back or applying anything.
C27_Witness ==
  /\ RunOver
  /\ options.force = "true"
  /\ Ledger0Ids # {}
  /\ files # {}
  /\ MaxOf(Ledger0Ids) = MaxOf(FileIds)
  /\ hist.log = <<>>
  /\ hist.nBegin = 0
  /\ \E t \in Tasks : ConnResolved(t)

(* ------------------------------ queryIterate --------------------------- *)
\* the rows 1 .. k in the order the engine delivers them
Delivered(k) == [j \in 1 .. k |-> j]

\* C28: in every interleaving of row callbacks, completion callback and
\* consumer pulls, the rows the consumer got followed by the rows still
\* buffered are the rows delivered so far, each once and in delivery order;
\* the generator waits only while the engine has a callback to come, and it
\* leaves the loop only after the completion callback, with every row of
\* the query handed to the consumer.
C28_EveryRowOnceInOrder ==
  /\ it.got \o it.rows = Delivered(it.sent)
  /\ it.pc = "waiting" => (~it.complete /\ it.rows = <<>>)
  /\ it.pc \in {"finalizing", "done"} =>
       /\ it.complete
       /\ it.rows = <<>>
       /\ it.got = Delivered(it.n)

\* C28 witness: the iteration is over and the consumer got three rows.
C28_Witness ==
  /\ it.pc = "done"
  /\ it.n = 3
  /\ it.got = <<1, 2, 3>>

(* ------------------------- order of the waiters ------------------------ *)
\* task t waits for the lock, having called connection() before task u
WaitsBefore(t, u) ==
  /\ pc[t] = "waiting"
  /\ pc[u] = "waiting"
  /\ hist.ticket[t] < hist.ticket[u]

\* C29: a caller is given the lock only when no caller that called
\* connection() before it is still waiting: a waiter is granted the lock
\* before every waiter that came after it, and a new caller enters at once
\* only when nobody waits.
C29_WaitersEnterInCallOrder ==
  [][\A t \in Tasks :
       (pc[t] # "granted" /\ pc'[t] = "granted") =>
          /\ \A u \in Tasks : ~WaitsBefore(u, t)
          /\ pc[t] = "idle" => \A u \in Tasks : pc[u] # "waiting"
    ]_vars

\* C29 witness: two callers waited; the one that called first holds the
\* lock and the one that called second still waits.
C29_Witness ==
  \E t, u \in Tasks :
    /\ pc[t] = "granted"
    /\ pc[u] = "waiting"
    /\ hist.ticket[t] = 1
    /\ hist.ticket[u] = 2

(* --------------------- close() during the first use -------------------- *)
\* connection() of task t resolves in this step
ConnResolves(t) ==
  /\ pc[t] # "idle"
  /\ pc'[t] = "idle"
  /\ res'[t].op = "connection"
  /\ res'[t].kind = "resolved"

\* C31: a connection() call that resolves does so with a handle, and that
\* handle is open at that moment, whatever close() calls were made while
\* the open, the pragma or the migration was under way.
C31_ResolvesWithOpenHandle ==
  [][\A t \in Tasks :
       ConnResolves(t) =>
          (res'[t].val # NoHandle /\ res'[t].val \in handles')
    ]_vars

\* C31 witness: a close() was called during the first use and connection()
\* has resolved with no handle.
C31_Witness ==
  /\ hist.nOpen = 1
  /\ hist.nClose > 0
  /\ \E t \in Tasks : res[t] = Resolved("connection", NoHandle)

(* ---------------------- iterate() of statement.js ---------------------- *)
\* C32: with the definition of statement.js the rows the consumer got
\* followed by the rows still buffered are the rows delivered so far, and
\* the generator ends only with every row of the query handed to the
\* consumer, also when the completion callback ran while rows were buffered.
C32_StatementIterateEveryRowOnce ==
  /\ it.got \o it.rows = Delivered(it.sent)
  /\ it.pc = "waiting" => (~it.complete /\ it.rows = <<>>)
  /\ it.pc = "done" =>
       /\ it.complete
       /\ it.rows = <<>>
       /\ it.got = Delivered(it.n)

\* C32 witness: the completion callback ran while delivered rows were
\* buffered, and the generator has ended with rows never yielded.
C32_Witness ==
  /\ it.def = "statement"
  /\ it.pc = "done"
  /\ it.complete
  /\ it.sent = it.n
  /\ it.rows # <<>>
  /\ Len(it.got) < it.n

(* ----------------------- the prepared statement ------------------------ *)
\* the iteration of queryIterate() has ended
IterationOver == it.pc \in {"done", "returned", "failed"}

\* C33: once the iteration has ended, after the last row, by the consumer
\* leaving early or by a failure, the statement queryIterate() prepared has
\* been finalized.
C33_FinalizedWhenIterationEnds == IterationOver => ~it.open

\* C33 witness: the consumer left after the first of three rows and the
\* prepared statement is still open.
C33_Witness ==
  /\ it.pc = "returned"
  /\ it.n = 3
  /\ it.got = <<1>>
  /\ it.open

(* --------------------------- ids of the files -------------------------- *)
\* the apply loop of task t is at a file, inside its transaction
Applying(t) ==
  /\ mig[t].phase = "apply"
  /\ pc[t] \in {"mBegin", "mScript", "mLedger", "mCommit"}

\* C34: the migrations migrate() has read carry pairwise different ids, and
\* the apply loop never starts an Apply for an id that the ledger holds
\* already.
C34_ReaderIdsUnique ==
  \A t \in Tasks :
    /\ \A j, k \in DOMAIN mig[t].migrations :
         mig[t].migrations[j].id = mig[t].migrations[k].id => j = k
    /\ Applying(t) /\ pc[t] # "mCommit" =>
         Current(mig[t]).id \notin IdsOf(store.ledger)

\* C34 witness: two files of id 1 were read, the first was applied and
\* committed, and the apply loop runs the script of the second.
C34_Witness ==
  \E t \in Tasks :
    /\ Len(mig[t].migrations) = 2
    /\ mig[t].migrations[1].id = 1
    /\ mig[t].migrations[2].id = 1
    /\ mig[t].j = 2
    /\ pc[t] = "mScript"
    /\ IdsOf(store.ledger) = {1}

(* ------------------- C35: connection() after a close() ------------------ *)
\* every callback that is due arrives, and the program takes the steps it can
ReopenSpec == Init /\ [][Next]_vars /\ WF_vars(Next)

\* task t is inside a connection() it called after a close() had closed a handle
Reopening(t) ==
  /\ hist.after[t]
  /\ pc[t] \in {"waiting", "granted"}

\* that connection() is over and gave an open handle no close() had closed
Reopened(t) ==
  /\ pc[t] = "idle"
  /\ ConnResolved(t)
  /\ res[t].val \in handles

\* C35: a connection() called after a successful close() runs to its end and
\* returns an open handle, one that is not among the handles closed earlier
\* (an open, pragma or script that the engine refuses ends it with a rejection)
C35_ReopensAfterClose ==
  \A t \in Tasks : Reopening(t) ~> (Reopened(t) \/ (pc[t] = "idle" /\ ConnRejected(t)))

C35_Witness ==
  \E t \in Tasks :
    /\ hist.after[t]
    /\ Reopened(t)
    /\ ClosedHandles # {}
    /\ res[t].val \notin ClosedHandles
    /\ res[t].val \in hist.pragma \cup hist.migrated

(* ------------- C36: the migration step and the migrate option ----------- *)
\* C36: with `migrate: false` no connection() ever starts migrate(): no
\* migration file is read, the ledger table is not created, no transaction is
\* begun, and a call that opened resolves straight from the open or the pragma;
\* with migration enabled migrate() is started at most once for each native
\* open, and a call that opened resolves only after its run has ended well
C36_MigratingOnlyWhenEnabled ==
  [][/\ ~options.migrate =>
          /\ hist'.nMigrate = 0
          /\ ~store'.table
          /\ ~tx'.active
          /\ \A t \in Tasks : pc'[t] \notin MigratePcs
          /\ \A t \in Tasks :
               (ConnResolves(t) /\ pc[t] # "granted") => pc[t] \in {"opening", "pragma"}
     /\ options.migrate =>
          /\ hist'.nMigrate <= hist'.nOpen
          /\ hist'.nMigrate - hist.nMigrate <= 1
          /\ \A t \in Tasks :
               (ConnResolves(t) /\ pc[t] # "granted") =>
                  /\ hist'.nMigrate > 0
                  /\ hist'.run = "ok"
    ]_vars

C36_Witness ==
  /\ ~options.migrate
  /\ files # {}
  /\ hist.nOpen = 1
  /\ hist.nMigrate = 0
  /\ \E t \in Tasks : pc[t] = "idle" /\ ConnResolved(t) /\ res[t].val = db /\ db \in handles

(* --------------------- insert, replace and update ----------------------- *)
\* JavaScript's undefined as a value of a data or where object
Undefined == "undefined"
Values == {Undefined, "v"}

\* the keys a data or where object may have, in the order Object.keys and
\* for..in give them; "other" is not a column of the table
KeyOrder == <<"key", "value", "other">>
KeySet == {KeyOrder[i] : i \in 1 .. Len(KeyOrder)}

\* the columns of the table, as `PRAGMA table_info` gives them
Columns == <<"key", "value", "type">>
ColumnSet == {Columns[i] : i \in 1 .. Len(Columns)}

\* an object: a function from its own keys to their values
Objects == UNION {[S -> Values] : S \in SUBSET KeySet}
ObjectKeys(o) == SelectSeq(KeyOrder, LAMBDA k : k \in DOMAIN o)
\* o[k], which is undefined for a key the object does not have
Get(o, k) == IF k \in DOMAIN o THEN o[k] ELSE Undefined

\* a white list or black list argument: an array of names, or not given
Lists == {NoList} \cup {[given |-> TRUE, names |-> S] : S \in SUBSET KeySet}

\* the where argument: not given, an id, an array [term, ...parameters]
\* (the empty array concatenates as the text "undefined"), or an object
Wheres ==
  {NoWhere}
    \cup {[NoWhere EXCEPT !.type = "id", !.id = i] : i \in {0, 7}}
    \cup {[NoWhere EXCEPT !.type = "array", !.term = w] : w \in {"undefined", "key = ?"}}
    \cup {[NoWhere EXCEPT !.type = "object", !.obj = o] : o \in Objects}

\* `!where`
Falsy(where) == where.type = "undefined" \/ (where.type = "id" /\ where.id = 0)

RECURSIVE Flatten(_)
Flatten(ss) == IF ss = <<>> THEN <<>> ELSE Head(ss) \o Flatten(Tail(ss))

\* outcomes of a call: an exception, a returned number, or this.run(sql, ...)
Thrown(e, sent) == [kind |-> "thrown", err |-> e, sent |-> sent]
Returned(sent) == [kind |-> "returned", err |-> "none", sent |-> sent]
Ran(sent, statement) == [kind |-> "run", err |-> "none", sent |-> Append(sent, statement)]

\* a statement: its verb, the columns it writes, the terms of its WHERE and
\* its parameters
Statement(verb, cols, where, params) ==
  [verb |-> verb, cols |-> cols, where |-> where, params |-> params]

\* createWhiteListByBlackList: the columns of the table not in the black list
CreateWhiteListByBlackList(table, blackList) ==
  IF blackList.given
  THEN [given |-> TRUE, names |-> {c \in ColumnSet : c \notin blackList.names}]
  ELSE NoList

\* the statements createWhiteListByBlackList sends
TableInfo(blackList) ==
  IF blackList.given THEN <<Statement("PRAGMA", <<>>, <<>>, <<>>)>> ELSE <<>>

\* the terms of the WHERE built from the where argument
WhereTerms(where) ==
  CASE where.type = "array" -> <<where.term>>
    [] where.type = "object" ->
         SelectSeq(ObjectKeys(where.obj), LAMBDA k : where.obj[k] # Undefined)
    [] OTHER -> <<"id = ?">>

\* the parameters the where argument adds after those of the data
WhereParameter(where) ==
  CASE where.type = "array" -> IF where.term = "undefined" THEN <<>> ELSE <<"w">>
    [] where.type = "object" ->
         [i \in 1 .. Len(WhereTerms(where)) |-> where.obj[WhereTerms(where)[i]]]
    [] OTHER -> <<"id">>

\* update() without the test of the built where
UpdateUnguarded(table, data, where, whiteList, sent) ==
  LET set == SelectSeq(ObjectKeys(data),
                       LAMBDA k : data[k] # Undefined
                                    /\ (~whiteList.given \/ k \in whiteList.names))
      parameter == [i \in 1 .. Len(set) |-> data[set[i]]] \o WhereParameter(where)
  IN IF Falsy(where) THEN Thrown("Where is missing", sent)
     ELSE IF table = "" THEN Thrown("Table is missing", sent)
     ELSE IF ObjectKeys(data) = <<>> THEN Returned(sent)
     ELSE IF set = <<>> THEN Returned(sent)
     ELSE Ran(sent, Statement("UPDATE", set, WhereTerms(where), parameter))

\* update(table, data, where, whiteList)
Update(table, data, where, whiteList, sent) ==
  LET set == SelectSeq(ObjectKeys(data),
                       LAMBDA k : data[k] # Undefined
                                    /\ (~whiteList.given \/ k \in whiteList.names))
      parameter == [i \in 1 .. Len(set) |-> data[set[i]]] \o WhereParameter(where)
  IN IF Falsy(where) THEN Thrown("Where is missing", sent)
     ELSE IF table = "" THEN Thrown("Table is missing", sent)
     ELSE IF ObjectKeys(data) = <<>> THEN Returned(sent)
     ELSE IF set = <<>> THEN Returned(sent)
     ELSE IF where.type = "object" /\ WhereTerms(where) = <<>>
          THEN Thrown("Where is not constructed", sent)
          ELSE Ran(sent, Statement("UPDATE", set, WhereTerms(where), parameter))

\* createInsertOrReplaceStatement with the white list not applied
CreateInsertOrReplaceStatementAllFields(insertOrReplace, table, data, whiteList, sent) ==
  IF table = "" THEN Thrown("Table is missing", sent)
  ELSE IF data = <<>> THEN Thrown("TypeError", sent)
  ELSE LET fields == ObjectKeys(data[1])
           row(r) == [j \in 1 .. Len(fields) |-> Get(data[r], fields[j])]
       IN Ran(sent, Statement(insertOrReplace, fields, <<>>,
                              Flatten([r \in 1 .. Len(data) |-> row(r)])))

\* createInsertOrReplaceStatement, handed to this.run by insert and replace
CreateInsertOrReplaceStatement(insertOrReplace, table, data, whiteList, sent) ==
  IF table = "" THEN Thrown("Table is missing", sent)
  ELSE IF data = <<>> THEN Thrown("TypeError", sent)
  ELSE LET keys == ObjectKeys(data[1])
           fields == IF whiteList.given
                     THEN SelectSeq(keys, LAMBDA v : v \in whiteList.names)
                     ELSE keys
           row(r) == [j \in 1 .. Len(fields) |-> Get(data[r], fields[j])]
       IN Ran(sent, Statement(insertOrReplace, fields, <<>>,
                              Flatten([r \in 1 .. Len(data) |-> row(r)])))

\* the operations, and those that take a black list
UpdateOps == {"update", "updateWithBlackList"}
InsertOps == {"insert", "insertWithBlackList", "replace", "replaceWithBlackList"}
BlackListOps == {"updateWithBlackList", "insertWithBlackList", "replaceWithBlackList"}
Verb(op) == IF op \in {"insert", "insertWithBlackList"} THEN "INSERT" ELSE "REPLACE"

\* the white list the operation works with, and what was sent to get it
WhiteList(c) ==
  IF c.op \in BlackListOps THEN CreateWhiteListByBlackList(c.table, c.list) ELSE c.list
SentBefore(c) == IF c.op \in BlackListOps THEN TableInfo(c.list) ELSE <<>>

\* update and updateWithBlackList are called with the arguments drawn
UpdateCall ==
  /\ crud.op \in UpdateOps
  /\ crud.out = NoOut
  /\ crud' = [crud EXCEPT !.out = Update(crud.table, crud.data[1], crud.where,
                                          WhiteList(crud), SentBefore(crud))]
  /\ UNCHANGED <<it, instanceVarsButCrud>>

\* insert, replace and their black list forms are called
InsertCall ==
  /\ crud.op \in InsertOps
  /\ crud.out = NoOut
  /\ crud' = [crud EXCEPT !.out = CreateInsertOrReplaceStatement(
                                     Verb(crud.op), crud.table, crud.data,
                                     WhiteList(crud), SentBefore(crud))]
  /\ UNCHANGED <<it, instanceVarsButCrud>>

\* the table argument: a name, or the empty string
Tables == {"", "Setting"}

\* data arrays of up to MaxData rows
DataArrays == UNION {[1 .. n -> Objects] : n \in 0 .. MaxData}

CrudInit ==
  /\ InitState
  /\ hist = NoHist
  /\ it = NoIter
  /\ instance = NoInstance
  /\ objects = <<Object("a", TRUE)>>
  /\ disk = NewDisk
  /\ options \in [WAL : {FALSE}, migrate : {FALSE}, force : {"none"},
                 memory : {FALSE}, readOnly : {FALSE}, fileMustExist : {FALSE}]
  /\ files = {}
  /\ pc = [t \in Tasks |-> IF t = 1 THEN "idle" ELSE "off"]
  /\ crud \in
       {[op |-> o, table |-> tb, data |-> <<d>>, where |-> w, list |-> l,
         out |-> NoOut] : tb \in Tables, o \in UpdateOps, d \in Objects, w \in Wheres, l \in Lists}
         \cup
       {[op |-> o, table |-> tb, data |-> d, where |-> NoWhere, list |-> l,
         out |-> NoOut] : tb \in Tables, o \in InsertOps, d \in DataArrays, l \in Lists}

CrudNext == UpdateCall \/ InsertCall

CrudSpec == CrudInit /\ [][CrudNext]_vars

(* ------------------ C37: update() and its WHERE ------------------------ *)
\* the call of update or updateWithBlackList is over
Updated == crud.op \in UpdateOps /\ crud.out # NoOut

\* the UPDATE statements the call handed to this.run
Updates == {i \in 1 .. Len(crud.out.sent) : crud.out.sent[i].verb = "UPDATE"}

\* the where argument is an object none of whose values is defined
WhereAllUndefined ==
  /\ crud.where.type = "object"
  /\ \A k \in DOMAIN crud.where.obj : crud.where.obj[k] = Undefined

\* a field of the data that is defined and passes the white list
Survives(k) ==
  /\ k \in DOMAIN crud.data[1]
  /\ crud.data[1][k] # Undefined
  /\ (WhiteList(crud).given => k \in WhiteList(crud).names)

\* nothing but the table information was asked of the database
NothingSent ==
  /\ Updates = {}
  /\ crud.op = "update" => crud.out.sent = <<>>

\* C37 as claimed: an UPDATE that is sent has a WHERE condition; with where
\* missing, or an object whose values are all undefined, update() throws and
\* sends nothing; otherwise, with no data field left by the filter, it
\* returns 0 and sends nothing
C37_UpdateNeverWithoutWhere ==
  Updated =>
    /\ \A i \in Updates : crud.out.sent[i].where # <<>>
    /\ (Falsy(crud.where) \/ WhereAllUndefined) =>
          (crud.out.kind = "thrown" /\ NothingSent)
    /\ (/\ ~Falsy(crud.where)
        /\ ~WhereAllUndefined
        /\ crud.table # ""
        /\ \A k \in KeySet : ~Survives(k)) =>
          (crud.out.kind = "returned" /\ NothingSent)

\* C37 amended: an UPDATE that is sent has a WHERE condition; with where
\* missing update() throws and sends nothing; with a table and a where given
\* and no data field left by the filter it returns 0 and sends nothing,
\* whatever the where object holds; with a data field left and a where object
\* whose values are all undefined it throws and sends nothing
C37_UpdateGuardsInOrder ==
  Updated =>
    /\ \A i \in Updates : crud.out.sent[i].where # <<>>
    /\ Falsy(crud.where) => (crud.out.kind = "thrown" /\ NothingSent)
    /\ (/\ ~Falsy(crud.where)
        /\ crud.table # ""
        /\ \A k \in KeySet : ~Survives(k)) =>
          (crud.out.kind = "returned" /\ NothingSent)
    /\ (WhereAllUndefined /\ \E k \in KeySet : Survives(k)) =>
          (crud.out.kind = "thrown" /\ NothingSent)

C37_Witness ==
  /\ Updated
  /\ crud.op = "update"
  /\ crud.table # ""
  /\ WhereAllUndefined
  /\ DOMAIN crud.where.obj # {}
  /\ \E k \in KeySet : Survives(k)
  /\ crud.out = Thrown("Where is not constructed", <<>>)

(* -------------- C38: the columns insert, replace and update write ------- *)
\* the call is over and handed a statement to this.run
Wrote == crud.out.kind = "run"
Written == crud.out.sent[Len(crud.out.sent)]

\* the columns the list argument permits: those of a white list; with a
\* black list the columns of the table that are not in it; any without a list
Permitted ==
  IF ~crud.list.given THEN KeySet
  ELSE IF crud.op \in BlackListOps THEN ColumnSet \ crud.list.names
  ELSE crud.list.names

\* C38: the statement of insert, replace and update names permitted columns
\* only, and its parameters are, row by row, the values the row has for those
\* columns (followed, for update, by the parameters of the where): no other
\* key of any row reaches the statement
C38_OnlyPermittedColumns ==
  Wrote =>
    LET cols == Written.cols
        n == Len(cols)
    IN /\ \A j \in 1 .. n : cols[j] \in Permitted
       /\ crud.op \in InsertOps =>
            /\ Len(Written.params) = n * Len(crud.data)
            /\ \A r \in 1 .. Len(crud.data) : \A j \in 1 .. n :
                 Written.params[(r - 1) * n + j] = Get(crud.data[r], cols[j])
       /\ crud.op \in UpdateOps =>
            /\ Len(Written.params) = n + Len(WhereParameter(crud.where))
            /\ \A j \in 1 .. n : Written.params[j] = crud.data[1][cols[j]]

C38_Witness ==
  /\ Wrote
  /\ crud.op = "insertWithBlackList"
  /\ crud.list.given
  /\ crud.list.names = {"key"}
  /\ Len(crud.data) = 2
  /\ DOMAIN crud.data[1] = KeySet
  /\ \A r \in 1 .. 2 : \A k \in DOMAIN crud.data[r] : crud.data[r][k] # Undefined
  /\ Written.cols = <<"value">>
  /\ Len(Written.params) = 2

====
